---- MODULE Spec2Model ----
(***************************************************************************)
(* A model of the cosmos-insights client-side cache and cascading filters. *)
(*                                                                         *)
(*   Spec        the CacheManager (IndexedDB cache) under concurrent       *)
(*               callers: get / set / delete as asynchronous operations    *)
(*   SpecOps     every operation of the CacheManager, called under         *)
(*               namespace names in either case and unknown ones           *)
(*   SpecLoad    DataManager.loadAllData / initializeSystem and            *)
(*               TrainingDataManager.initializeTrainingSystem on top of    *)
(*               the same cache                                            *)
(*   SpecCheck   checkTrainingDataCache on a cache earlier sessions filled *)
(*   SpecFilter  the synchronous cascading derivations over a snapshot     *)
(*   SpecSummary the filters and metrics of TrainingSummaryUtils           *)
(*   SpecValidate the integrity report of TrainingDataManager              *)
(***************************************************************************)
EXTENDS Integers, Sequences, FiniteSets, TLC

(***************************************************************************)
(* Bounds of the model.                                                    *)
(***************************************************************************)
\* how many times the clock is advanced
MaxTicks == 1
\* how many cache operations may be in flight at once
MaxQueue == 2
\* how many system initializations (loads) are started
MaxLoads == 2
\* how many class rows a snapshot holds at most
MaxClasses == 2
\* how many rows a fact table (attendance or request statistics) holds at most
MaxStats == 2

(***************************************************************************)
(* Optional values: JavaScript's null / undefined is the empty set, a      *)
(* present value v is {v}.                                                 *)
(***************************************************************************)
Null == {}
Some(v) == {v}
The(x) == CHOOSE v \in x : TRUE

(***************************************************************************)
(* CacheManager constructor.                                               *)
(***************************************************************************)
CACHE_TTL == 60 * 60 * 1000

STORES == [TRAINING |-> "training_data", ASSIST |-> "assist_data",
           COMPLY |-> "comply_data", SHARED |-> "shared_data"]

StoreNames == {STORES[d] : d \in DOMAIN STORES}

\* Object.entries(this.STORES) / Object.values(this.STORES): insertion order
StoreEntries == <<"TRAINING", "ASSIST", "COMPLY", "SHARED">>

\* String.prototype.toUpperCase on the dashboard names callers pass
ToUpperCase(d) ==
    CASE d = "training" -> "TRAINING"
      [] d = "legacy" -> "LEGACY"
      [] d = "archive" -> "ARCHIVE"
      [] OTHER -> d

\* faulty variant: the name is looked up as it was passed
StoreNameAsPassed(dashboard) ==
    IF dashboard \in DOMAIN STORES THEN STORES[dashboard] ELSE STORES.SHARED

\* this.STORES[dashboard.toUpperCase()] || this.STORES.SHARED
StoreName(dashboard) ==
    LET u == ToUpperCase(dashboard)
    IN IF u \in DOMAIN STORES THEN STORES[u] ELSE STORES.SHARED

\* the dataset keys of the model: one flagged shared by the older
\* TrainingDataManager ('aors') and one never shared ('classes')
dataKeys == <<"aors", "classes">>

Keys == {dataKeys[i] : i \in DOMAIN dataKeys}

\* the keys, dashboards and values the direct callers of the cache use
CallKeys == {"classes"}
CallDashboards == {"TRAINING", "SHARED"}
CallValues == {<<>>, <<2>>}

\* the value null, written as a tuple that no collection equals (the rows
\* of a collection are numbers >= 1)
null == <<0>>

\* the namespace names and values of the callers that name a dashboard in
\* either case or name one the cache does not know
Namespaces == {"TRAINING", "training", "legacy", "archive"}
NamespaceValues == {<<2>>, null}

VARIABLES
    now,      \* Date.now()
    store,    \* the object stores: store name -> key -> optional record
    queue,    \* cache operations in flight, in the order IndexedDB runs them
    last,     \* what the most recent storage request did and returned
    mgr,      \* the DataManager instance and the load it is running
    ret       \* what the last system initialization, or the derivation
              \* called, returned

vars == <<now, store, queue, last, mgr, ret>>

(***************************************************************************)
(* An operation in flight.  caller says who awaits the result: "client" (a *)
(* direct caller), "mgr" (the load awaiting it) or "none" (not awaited).   *)
(***************************************************************************)
Op(op, key, dashboard, value, caller) ==
    [op |-> op, key |-> key, dashboard |-> dashboard, value |-> value,
     caller |-> caller]

\* last: the request that ran most recently.  arg is the value a set was
\* given, res what a get resolved with, ok what a set resolved with (for a
\* get or delete: whether the request ran), stale whether a get found an
\* expired record, afterSet whether a get ran directly after a successful
\* set of the same store and key, prev the record a set replaced, promise
\* the state of the promise the operation returned to its caller: "fulfilled",
\* "rejected", or "pending" when nothing will settle it any more, failed
\* whether init(), db.transaction(...) or the request of the operation
\* failed (for getStats: init() or db.transaction(...)), dashboard the
\* namespace name the caller passed.  For
\* getStats res is the statistics object: the item counts of the stores in
\* the order of StoreEntries, empty for {}.
NoLast ==
    [op |-> "none", key |-> "", store |-> "", arg |-> <<>>, res |-> Null,
     ok |-> FALSE, stale |-> FALSE, afterSet |-> FALSE, prev |-> Null,
     promise |-> "none", failed |-> FALSE, dashboard |-> ""]

\* faulty variant: the error is thrown on to the caller
OnErrorRethrown(op) ==
    [res |-> Null, ok |-> FALSE, promise |-> "rejected"]

\* what the catch block or the onerror handler of an operation gives its
\* caller: get null, set false, getStats {}, the others undefined
OnError(op) ==
    [res |-> IF op = "getStats" THEN Some(<<>>) ELSE Null, ok |-> FALSE,
     promise |-> "fulfilled"]

\* last after the operation o has failed in init(), in db.transaction(...)
\* or in its request
Failed(o) ==
    [NoLast EXCEPT !.op = o.op, !.key = o.key, !.dashboard = o.dashboard,
                   !.store = StoreName(o.dashboard), !.arg = o.value,
                   !.res = OnError(o.op).res, !.ok = OnError(o.op).ok,
                   !.promise = OnError(o.op).promise, !.failed = TRUE]

\* String.prototype.toLowerCase on the dashboard names
ToLowerCase(d) ==
    CASE d = "TRAINING" -> "training"
      [] d = "SHARED" -> "shared"
      [] OTHER -> d

\* faulty variant: the put merges the new value into the record in place
DataMerged(key, value, dashboard) ==
    LET old == store[StoreName(dashboard)][key]
    IN [key |-> key,
        value |-> IF old = Null THEN value ELSE The(old).value \o value,
        timestamp |-> now, dashboard |-> ToLowerCase(dashboard)]

\* the record set() builds and puts (dataType and size are not modelled)
Data(key, value, dashboard) ==
    [key |-> key, value |-> value, timestamp |-> now,
     dashboard |-> ToLowerCase(dashboard)]

\* faulty variant: the comparison with the TTL is not strict
ExpiredAtTTL(rec) == now - rec.timestamp >= CACHE_TTL

\* age > this.CACHE_TTL
Expired(rec) == now - rec.timestamp > CACHE_TTL

\* what get() resolves with for the record found under the key
GetResult(found) ==
    IF found = Null THEN Null
    ELSE IF Expired(The(found)) THEN Null
    ELSE Some(The(found).value)

\* the manager before any load: new DataManager(...).  n counts the loads
\* started, results and hit are the locals of the load that is running or
\* ran last (hit: what the cache lookup gave for a key), resolved and cached
\* the outcome of the operation the load awaits.
NewManager ==
    [dataKeys |-> dataKeys, pc |-> "idle", n |-> 0, loader |-> "none",
     shared |-> {}, idx |-> 0,
     serverData |-> Null, cache |-> [k \in Keys |-> Null],
     results |-> [k \in Keys |-> Null], hit |-> [k \in Keys |-> Null],
     resolved |-> FALSE, cached |-> Null]

\* the promise of an awaited operation resolves: the load that awaits it
\* gets the value
Deliver(caller, res) ==
    IF caller = "mgr"
    THEN mgr' = [mgr EXCEPT !.resolved = TRUE, !.cached = res]
    ELSE UNCHANGED mgr

EmptyStore == [s \in StoreNames |-> [k \in Keys |-> Null]]

Init ==
    /\ now = 0
    /\ store = EmptyStore
    /\ queue = <<>>
    /\ last = NoLast
    /\ mgr = NewManager
    /\ ret = Null

(***************************************************************************)
(* The clock: time passes by exactly the TTL or by a millisecond more.      *)
(***************************************************************************)
Ticks == now \div CACHE_TTL

Tick ==
    /\ Ticks < MaxTicks
    /\ \E d \in {CACHE_TTL, CACHE_TTL + 1} : now' = now + d
    /\ UNCHANGED <<store, queue, last, mgr, ret>>

(***************************************************************************)
(* Direct callers of the cache.  A call starts init() (indexedDB.open);    *)
(* the requests of the calls run in the order the calls were made.         *)
(***************************************************************************)
CallGet ==
    /\ Len(queue) < MaxQueue
    /\ \E k \in CallKeys, d \in CallDashboards :
          queue' = Append(queue, Op("get", k, d, <<>>, "client"))
    /\ UNCHANGED <<now, store, last, mgr, ret>>

CallSet ==
    /\ Len(queue) < MaxQueue
    /\ \E k \in CallKeys, d \in CallDashboards, v \in CallValues :
          queue' = Append(queue, Op("set", k, d, v, "client"))
    /\ UNCHANGED <<now, store, last, mgr, ret>>

CallDelete ==
    /\ Len(queue) < MaxQueue
    /\ \E k \in CallKeys, d \in CallDashboards :
          queue' = Append(queue, Op("delete", k, d, <<>>, "client"))
    /\ UNCHANGED <<now, store, last, mgr, ret>>

(***************************************************************************)
(* CacheManager.get: the store.get request succeeds.  An expired record    *)
(* starts this.delete(key, dashboard), which is not awaited: its request   *)
(* is made after those of the calls already in flight.                     *)
(***************************************************************************)
AfterSet(key, s) ==
    last.op = "set" /\ last.ok /\ last.key = key /\ last.store = s

GetSuccess ==
    /\ queue # <<>>
    /\ Head(queue).op = "get"
    /\ LET o == Head(queue)
           s == StoreName(o.dashboard)
           found == store[s][o.key]
           res == GetResult(found)
       IN /\ queue' = IF found # Null /\ Expired(The(found))
                      THEN Append(Tail(queue),
                                  Op("delete", o.key, o.dashboard, <<>>, "none"))
                      ELSE Tail(queue)
          /\ last' = [NoLast EXCEPT !.op = "get", !.key = o.key, !.store = s,
                         !.dashboard = o.dashboard,
                         !.res = res, !.ok = TRUE, !.promise = "fulfilled",
                         !.stale = (found # Null /\ Expired(The(found))),
                         !.afterSet = AfterSet(o.key, s)]
          /\ Deliver(o.caller, res)
    /\ UNCHANGED <<now, store, ret>>

\* init() rejects or request.onerror fires: get resolves null
GetFail ==
    /\ queue # <<>>
    /\ Head(queue).op = "get"
    /\ LET o == Head(queue)
       IN /\ queue' = Tail(queue)
          /\ last' = Failed(o)
          /\ Deliver(o.caller, Null)
    /\ UNCHANGED <<now, store, ret>>

(***************************************************************************)
(* CacheManager.set: store.put succeeds and set resolves true, or the      *)
(* write fails and set resolves false.                                     *)
(***************************************************************************)
SetSuccess ==
    /\ queue # <<>>
    /\ Head(queue).op = "set"
    /\ Head(queue).value # null
    /\ LET o == Head(queue)
           s == StoreName(o.dashboard)
       IN /\ store' = [store EXCEPT ![s][o.key] =
                          Some(Data(o.key, o.value, o.dashboard))]
          /\ queue' = Tail(queue)
          /\ last' = [NoLast EXCEPT !.op = "set", !.key = o.key, !.store = s,
                         !.dashboard = o.dashboard,
                         !.ok = TRUE, !.arg = o.value,
                         !.prev = store[s][o.key], !.promise = "fulfilled"]
          /\ Deliver(o.caller, Null)
    /\ UNCHANGED <<now, ret>>

SetFail ==
    /\ queue # <<>>
    /\ Head(queue).op = "set"
    /\ LET o == Head(queue)
       IN /\ queue' = Tail(queue)
          /\ last' = Failed(o)
          /\ Deliver(o.caller, Null)
    /\ UNCHANGED <<now, store, ret>>

\* store.put(data) succeeds for the value null: the onsuccess handler reads
\* value.length for its log line before it calls resolve(true), the
\* TypeError leaves the handler, the transaction aborts and nothing settles
\* the promise set returned
SetThrows ==
    /\ queue # <<>>
    /\ Head(queue).op = "set"
    /\ Head(queue).value = null
    /\ LET o == Head(queue)
       IN /\ queue' = Tail(queue)
          /\ last' = [NoLast EXCEPT !.op = "set", !.key = o.key,
                         !.store = StoreName(o.dashboard), !.arg = o.value,
                         !.dashboard = o.dashboard, !.promise = "pending"]
    /\ UNCHANGED <<now, store, mgr, ret>>

(***************************************************************************)
(* CacheManager.delete: store.delete runs, or init() rejects and the       *)
(* error is swallowed.                                                     *)
(***************************************************************************)
DeleteRun ==
    /\ queue # <<>>
    /\ Head(queue).op = "delete"
    /\ LET o == Head(queue)
           s == StoreName(o.dashboard)
       IN /\ store' = [store EXCEPT ![s][o.key] = Null]
          /\ queue' = Tail(queue)
          /\ last' = [NoLast EXCEPT !.op = "delete", !.key = o.key,
                         !.store = s, !.dashboard = o.dashboard,
                         !.ok = TRUE, !.promise = "fulfilled"]
    /\ UNCHANGED <<now, mgr, ret>>

DeleteFail ==
    /\ queue # <<>>
    /\ Head(queue).op = "delete"
    /\ LET o == Head(queue)
       IN /\ queue' = Tail(queue)
          /\ last' = Failed(o)
    /\ UNCHANGED <<now, store, mgr, ret>>

\* callers that name the namespace in either case, or an unknown one
CallGetIn ==
    /\ Len(queue) < MaxQueue
    /\ \E k \in CallKeys, d \in Namespaces :
          queue' = Append(queue, Op("get", k, d, <<>>, "client"))
    /\ UNCHANGED <<now, store, last, mgr, ret>>

CallSetIn ==
    /\ Len(queue) < MaxQueue
    /\ \E k \in CallKeys, d \in Namespaces, v \in NamespaceValues :
          queue' = Append(queue, Op("set", k, d, v, "client"))
    /\ UNCHANGED <<now, store, last, mgr, ret>>

CallDeleteIn ==
    /\ Len(queue) < MaxQueue
    /\ \E k \in CallKeys, d \in Namespaces :
          queue' = Append(queue, Op("delete", k, d, <<>>, "client"))
    /\ UNCHANGED <<now, store, last, mgr, ret>>

(***************************************************************************)
(* CacheManager.clearDashboard and clearAll: store.clear() runs on the one *)
(* store or on every store, or the error is caught and logged.             *)
(***************************************************************************)
CallClearDashboard ==
    /\ Len(queue) < MaxQueue
    /\ \E d \in Namespaces :
          queue' = Append(queue, Op("clearDashboard", "", d, <<>>, "client"))
    /\ UNCHANGED <<now, store, last, mgr, ret>>

CallClearAll ==
    /\ Len(queue) < MaxQueue
    /\ queue' = Append(queue, Op("clearAll", "", "", <<>>, "client"))
    /\ UNCHANGED <<now, store, last, mgr, ret>>

ClearDashboardRun ==
    /\ queue # <<>>
    /\ Head(queue).op = "clearDashboard"
    /\ LET o == Head(queue)
           s == StoreName(o.dashboard)
       IN /\ store' = [store EXCEPT ![s] = [k \in Keys |-> Null]]
          /\ queue' = Tail(queue)
          /\ last' = [NoLast EXCEPT !.op = "clearDashboard", !.store = s,
                         !.dashboard = o.dashboard,
                         !.ok = TRUE, !.promise = "fulfilled"]
    /\ UNCHANGED <<now, mgr, ret>>

ClearAllRun ==
    /\ queue # <<>>
    /\ Head(queue).op = "clearAll"
    /\ store' = EmptyStore
    /\ queue' = Tail(queue)
    /\ last' = [NoLast EXCEPT !.op = "clearAll", !.ok = TRUE,
                   !.promise = "fulfilled"]
    /\ UNCHANGED <<now, mgr, ret>>

ClearFail ==
    /\ queue # <<>>
    /\ Head(queue).op \in {"clearDashboard", "clearAll"}
    /\ queue' = Tail(queue)
    /\ last' = [Failed(Head(queue)) EXCEPT
                   !.store = IF Head(queue).op = "clearAll" THEN ""
                             ELSE StoreName(Head(queue).dashboard)]
    /\ UNCHANGED <<now, store, mgr, ret>>

(***************************************************************************)
(* CacheManager.getStats: one getAll per store, each awaited before the    *)
(* transaction of the next store is made, so the requests of other calls   *)
(* in flight run in between.  The value of the operation in flight is the  *)
(* stats object built so far.                                              *)
(***************************************************************************)
CallGetStats ==
    /\ Len(queue) < MaxQueue
    /\ queue' = Append(queue, Op("getStats", "", "", <<>>, "client"))
    /\ UNCHANGED <<now, store, last, mgr, ret>>

\* items.length of store.getAll()
Items(s) == Cardinality({k \in Keys : store[s][k] # Null})

\* the loop of getStats after the request of one store gave the count n
GetStatsCounted(n) ==
    LET o == Head(queue)
        stats == Append(o.value, n)
    IN IF Len(stats) = Len(StoreEntries)
       THEN /\ queue' = Tail(queue)
            /\ last' = [NoLast EXCEPT !.op = "getStats", !.res = Some(stats),
                           !.ok = TRUE, !.promise = "fulfilled"]
       ELSE /\ queue' = Append(Tail(queue), [o EXCEPT !.value = stats])
            /\ last' = last

\* request.onsuccess of store.getAll()
GetStatsSuccess ==
    /\ queue # <<>>
    /\ Head(queue).op = "getStats"
    /\ GetStatsCounted(Items(STORES[StoreEntries[Len(Head(queue).value) + 1]]))
    /\ UNCHANGED <<now, store, mgr, ret>>

\* request.onerror of store.getAll(): resolve({ items: 0, size: 0 })
GetStatsRequestError ==
    /\ queue # <<>>
    /\ Head(queue).op = "getStats"
    /\ GetStatsCounted(0)
    /\ UNCHANGED <<now, store, mgr, ret>>

\* init() rejects or db.transaction throws: return {}
GetStatsFail ==
    /\ queue # <<>>
    /\ Head(queue).op = "getStats"
    /\ queue' = Tail(queue)
    /\ last' = [Failed(Head(queue)) EXCEPT !.store = "", !.arg = <<>>]
    /\ UNCHANGED <<now, store, mgr, ret>>

Next ==
    \/ Tick
    \/ CallGet
    \/ CallSet
    \/ CallDelete
    \/ GetSuccess
    \/ GetFail
    \/ SetSuccess
    \/ SetFail
    \/ DeleteRun
    \/ DeleteFail

Spec == Init /\ [][Next]_vars

(***************************************************************************)
(* Every operation of the cache, called under the namespace names.  The    *)
(* clock stands still: no record expires.                                  *)
(***************************************************************************)
\* the storage answers the operation at the head of the queue
Complete ==
    \/ GetSuccess
    \/ GetFail
    \/ SetSuccess
    \/ SetFail
    \/ SetThrows
    \/ DeleteRun
    \/ DeleteFail
    \/ ClearDashboardRun
    \/ ClearAllRun
    \/ ClearFail
    \/ GetStatsSuccess
    \/ GetStatsRequestError
    \/ GetStatsFail

NextOps ==
    \/ CallGetIn
    \/ CallSetIn
    \/ CallDeleteIn
    \/ CallClearDashboard
    \/ CallClearAll
    \/ CallGetStats
    \/ Complete

SpecOps == Init /\ [][NextOps]_vars

\* the event loop delivers the event of every request made
SpecOpsFair == SpecOps /\ WF_vars(Complete)

(***************************************************************************)
(* DataManager (core/data-manager.js) and its TrainingDataManager          *)
(* subclasses.                                                             *)
(***************************************************************************)
\* super('TRAINING'): this.dashboardName = dashboardName.toUpperCase()
dashboardName == ToUpperCase("TRAINING")

\* sharedDataTypes of the older TrainingDataManager, within the model's keys
sharedDataTypes == {"aors"}

\* the isSharedData policies of the managers: the base class and the newer
\* TrainingDataManagers share nothing, the older one shares sharedDataTypes
SharedPolicies == {{}, sharedDataTypes}

\* isSharedData(key)
isSharedData(m, key) == key \in m.shared

\* x && x.length > 0
NonEmpty(x) == x # Null /\ Len(The(x)) > 0

\* the bulk payloads a load is given: none, or per key nothing, an empty
\* collection or rows
PayloadValues == {Null, Some(<<>>), Some(<<1>>)}
Payloads == {Null} \cup {Some(f) : f \in [Keys -> PayloadValues]}

\* serverData && typeof serverData === 'object'
HasServerData(sd) == sd # Null

\* serverData[key] && serverData[key].length > 0
Supplies(sd, key) == HasServerData(sd) /\ NonEmpty(The(sd)[key])

\* getData(key): this.cache[key] || []
getData(m, key) == IF m.cache[key] = Null THEN <<>> ELSE The(m.cache[key])

\* faulty variant: some key instead of every key
isReadySome(m) ==
    \E i \in DOMAIN m.dataKeys :
        m.cache[m.dataKeys[i]] # Null /\ Len(The(m.cache[m.dataKeys[i]])) > 0

\* isReady(): this.dataKeys.every(key => this.cache[key] && this.cache[key].length > 0)
isReady(m) ==
    \A i \in DOMAIN m.dataKeys :
        m.cache[m.dataKeys[i]] # Null /\ Len(The(m.cache[m.dataKeys[i]])) > 0

\* if (cached && cached.length > 0) { results[key] = cached; this.cache[key] = cached }
\* hit remembers what the cache lookup gave for the key
Recorded(m, key, cached) ==
    IF NonEmpty(cached)
    THEN [m EXCEPT !.results[key] = cached, !.cache[key] = cached,
                   !.hit[key] = cached]
    ELSE m

\* faulty variant: the payload's value is taken only for a key the cache lookup
\* left missing
AdoptedIfMissing(m) ==
    [m EXCEPT
        !.results = [k \in Keys |-> IF Supplies(m.serverData, k) /\ m.hit[k] = Null
                                    THEN The(m.serverData)[k] ELSE @[k]],
        !.cache = [k \in Keys |-> IF Supplies(m.serverData, k) /\ m.hit[k] = Null
                                  THEN The(m.serverData)[k] ELSE @[k]]]

\* the server loop of loadAllData:
\* results[key] = serverData[key]; this.cache[key] = serverData[key]
Adopted(m) ==
    [m EXCEPT
        !.results = [k \in Keys |-> IF Supplies(m.serverData, k)
                                    THEN The(m.serverData)[k] ELSE @[k]],
        !.cache = [k \in Keys |-> IF Supplies(m.serverData, k)
                                  THEN The(m.serverData)[k] ELSE @[k]]]

\* faulty variant: every key is cached under the dashboard's own name
cacheLocationOwn(m, key) == dashboardName

\* const cacheLocation = this.isSharedData(key) ? 'SHARED' : this.dashboardName
cacheLocation(m, key) == IF isSharedData(m, key) THEN "SHARED" ELSE dashboardName

\* faulty variant: only the keys the cache lookup left missing are written
WriteThroughIfMissing(m) ==
    LET all == [i \in DOMAIN dataKeys |->
                   Op("set", dataKeys[i], cacheLocation(m, dataKeys[i]),
                      IF Supplies(m.serverData, dataKeys[i])
                      THEN The(The(m.serverData)[dataKeys[i]]) ELSE <<>>,
                      "none")]
    IN SelectSeq(all, LAMBDA o : Supplies(m.serverData, o.key) /\ m.hit[o.key] = Null)

\* faulty variant: the server loop stops after its first write
WriteThroughFirst(m) ==
    LET all == [i \in DOMAIN dataKeys |->
                   Op("set", dataKeys[i], cacheLocation(m, dataKeys[i]),
                      IF Supplies(m.serverData, dataKeys[i])
                      THEN The(The(m.serverData)[dataKeys[i]]) ELSE <<>>,
                      "none")]
        supplied == SelectSeq(all, LAMBDA o : Supplies(m.serverData, o.key))
    IN IF supplied = <<>> THEN <<>> ELSE <<supplied[1]>>

\* the set() calls of loadAllData's server loop, none of them awaited
WriteThrough(m) ==
    LET all == [i \in DOMAIN dataKeys |->
                   Op("set", dataKeys[i], cacheLocation(m, dataKeys[i]),
                      IF Supplies(m.serverData, dataKeys[i])
                      THEN The(The(m.serverData)[dataKeys[i]]) ELSE <<>>,
                      "none")]
    IN SelectSeq(all, LAMBDA o : Supplies(m.serverData, o.key))

\* what initializeSystem / initializeTrainingSystem return
Returned(ready, m, source) ==
    Some([ready |-> ready, data |-> m.results, source |-> source])

\* the manager between loads
Idle(m) == [m EXCEPT !.pc = "idle", !.idx = 0, !.resolved = FALSE,
                     !.cached = Null]

(***************************************************************************)
(* DataManager.initializeSystem(serverData) -> loadAllData(serverData):    *)
(* on a new manager or on the one that exists.  The first get is awaited.  *)
(***************************************************************************)
StartInitializeSystem ==
    /\ mgr.pc = "idle"
    /\ mgr.n < MaxLoads
    /\ \E sd \in Payloads, m \in {mgr} \cup {[NewManager EXCEPT !.shared = p] :
                                                p \in SharedPolicies} :
          /\ mgr' = [m EXCEPT !.pc = "get", !.n = mgr.n + 1,
                              !.loader = "initializeSystem",
                              !.idx = 1, !.serverData = sd,
                              !.results = [k \in Keys |-> Null],
                              !.hit = [k \in Keys |-> Null],
                              !.resolved = FALSE, !.cached = Null]
          /\ queue' = Append(queue, Op("get", dataKeys[1], dashboardName, <<>>, "mgr"))
    /\ ret' = Null
    /\ UNCHANGED <<now, store, last>>

\* loadAllData after its last cache lookup: the server loop, then
\* initializeSystem returns ready: true
FinishLoadAllData(m) ==
    /\ mgr' = Idle(Adopted(m))
    /\ queue' = queue \o WriteThrough(m)
    /\ ret' = Returned(TRUE, Adopted(m), "system")

\* the loop of loadAllData moves on to the next key
NextLookup(m) ==
    IF m.idx < Len(dataKeys)
    THEN /\ mgr' = [m EXCEPT !.pc = "get", !.idx = @ + 1, !.resolved = FALSE,
                             !.cached = Null]
         /\ queue' = Append(queue, Op("get", dataKeys[m.idx + 1], dashboardName,
                                      <<>>, "mgr"))
         /\ UNCHANGED ret
    ELSE FinishLoadAllData(m)

\* let cached = await this.cacheManager.get(key, this.dashboardName) resolved
LoadCached ==
    /\ mgr.pc = "get"
    /\ mgr.resolved
    /\ LET key == dataKeys[mgr.idx]
       IN IF mgr.cached = Null /\ isSharedData(mgr, key)
          THEN /\ mgr' = [mgr EXCEPT !.pc = "getShared", !.resolved = FALSE,
                                     !.cached = Null]
               /\ queue' = Append(queue, Op("get", key, "SHARED", <<>>, "mgr"))
               /\ UNCHANGED ret
          ELSE NextLookup(Recorded(mgr, key, mgr.cached))
    /\ UNCHANGED <<now, store, last>>

\* cached = await this.cacheManager.get(key, 'SHARED') resolved
LoadSharedCached ==
    /\ mgr.pc = "getShared"
    /\ mgr.resolved
    /\ NextLookup(Recorded(mgr, dataKeys[mgr.idx], mgr.cached))
    /\ UNCHANGED <<now, store, last>>

(***************************************************************************)
(* static TrainingDataManager.initializeTrainingSystem(server_data), the   *)
(* variant that checks the cache itself: always on a new manager.          *)
(***************************************************************************)
StartInitializeTrainingSystem ==
    /\ mgr.pc = "idle"
    /\ mgr.n < MaxLoads
    /\ \E sd \in Payloads :
          mgr' = [NewManager EXCEPT !.pc = "tget", !.n = mgr.n + 1,
                                    !.loader = "initializeTrainingSystem",
                                    !.idx = 1, !.serverData = sd]
    /\ queue' = Append(queue, Op("get", dataKeys[1], "TRAINING", <<>>, "mgr"))
    /\ ret' = Null
    /\ UNCHANGED <<now, store, last>>

\* the keys from position i on that server_data supplies
SuppliedFrom(m, i) ==
    {j \in DOMAIN dataKeys : j >= i /\ Supplies(m.serverData, dataKeys[j])}

Min(S) == CHOOSE x \in S : \A y \in S : x <= y

\* faulty variant: a write that failed is made again
ServerLoopRetrying(m, i) ==
    LET from == IF last.op = "set" /\ last.failed /\ i > 1 THEN i - 1 ELSE i
    IN IF SuppliedFrom(m, from) = {}
       THEN /\ mgr' = Idle(m)
            /\ queue' = queue
            /\ ret' = Returned(TRUE, m, "server")
       ELSE LET j == Min(SuppliedFrom(m, from))
                key == dataKeys[j]
                value == The(m.serverData)[key]
            IN /\ mgr' = [m EXCEPT !.pc = "tset", !.idx = j,
                                   !.results[key] = value, !.cache[key] = value,
                                   !.resolved = FALSE, !.cached = Null]
               /\ queue' = Append(queue, Op("set", key, "TRAINING", The(value), "mgr"))
               /\ UNCHANGED ret

\* the server loop from position i: the next supplied key is taken to the
\* snapshot and its set() awaited; with none left the call returns
\* ready: true, source: 'server'
ServerLoopFrom(m, i) ==
    IF SuppliedFrom(m, i) = {}
    THEN /\ mgr' = Idle(m)
         /\ queue' = queue
         /\ ret' = Returned(TRUE, m, "server")
    ELSE LET j == Min(SuppliedFrom(m, i))
             key == dataKeys[j]
             value == The(m.serverData)[key]
         IN /\ mgr' = [m EXCEPT !.pc = "tset", !.idx = j,
                                !.results[key] = value, !.cache[key] = value,
                                !.resolved = FALSE, !.cached = Null]
            /\ queue' = Append(queue, Op("set", key, "TRAINING", The(value), "mgr"))
            /\ UNCHANGED ret

\* number of keys the cache lookups satisfied: cacheHits
cacheHits(m) == Cardinality({k \in Keys : m.hit[k] # Null})

\* after the last cache lookup of initializeTrainingSystem
AfterTrainingLookups(m) ==
    IF cacheHits(m) = Len(dataKeys)
    THEN /\ mgr' = Idle(m)
         /\ queue' = queue
         /\ ret' = Returned(TRUE, m, "cache")
    ELSE IF HasServerData(m.serverData)
    THEN ServerLoopFrom(m, 1)
    ELSE /\ mgr' = Idle(m)
         /\ queue' = queue
         /\ ret' = Returned(isReady(m), m, "mixed")

\* const cached = await window.cacheManager.get(key, 'TRAINING') resolved
TrainingCached ==
    /\ mgr.pc = "tget"
    /\ mgr.resolved
    /\ LET m == Recorded(mgr, dataKeys[mgr.idx], mgr.cached)
       IN IF m.idx < Len(dataKeys)
          THEN /\ mgr' = [m EXCEPT !.idx = @ + 1, !.resolved = FALSE,
                                   !.cached = Null]
               /\ queue' = Append(queue, Op("get", dataKeys[m.idx + 1],
                                            "TRAINING", <<>>, "mgr"))
               /\ UNCHANGED ret
          ELSE AfterTrainingLookups(m)
    /\ UNCHANGED <<now, store, last>>

\* await window.cacheManager.set(key, server_data[key], 'TRAINING') resolved
TrainingStored ==
    /\ mgr.pc = "tset"
    /\ mgr.resolved
    /\ ServerLoopFrom(mgr, mgr.idx + 1)
    /\ UNCHANGED <<now, store, last>>

(***************************************************************************)
(* The loads on a cache that earlier sessions have filled: the records are *)
(* new, as old as the TTL or a millisecond older when the loads start, and *)
(* the loads take no time.                                                 *)
(***************************************************************************)
\* a record an earlier session cached at time 0
Seeded(key, value, dashboard) ==
    Some([key |-> key, value |-> value, timestamp |-> 0,
          dashboard |-> ToLowerCase(dashboard)])

SeededStores ==
    {[s \in StoreNames |->
        IF s = STORES.TRAINING THEN t
        ELSE IF s = STORES.SHARED THEN h
        ELSE [k \in Keys |-> Null]] :
     t \in [Keys -> {Null, Some(<<>>), Some(<<2>>)}],
     h \in [Keys -> {Null, Some(<<2>>)}]}

InitLoad ==
    /\ now \in {0, CACHE_TTL, CACHE_TTL + 1}
    /\ \E c \in SeededStores :
          store = [s \in StoreNames |-> [k \in Keys |->
                      IF c[s][k] = Null THEN Null
                      ELSE Seeded(k, The(c[s][k]),
                                  IF s = STORES.SHARED THEN "SHARED" ELSE "TRAINING")]]
    /\ queue = <<>>
    /\ last = NoLast
    /\ mgr = NewManager
    /\ ret = Null

NextLoad ==
    \/ StartInitializeSystem
    \/ LoadCached
    \/ LoadSharedCached
    \/ StartInitializeTrainingSystem
    \/ TrainingCached
    \/ TrainingStored
    \/ GetSuccess
    \/ GetFail
    \/ SetSuccess
    \/ SetFail
    \/ DeleteRun
    \/ DeleteFail

SpecLoad == InitLoad /\ [][NextLoad]_vars

(***************************************************************************)
(* static TrainingDataManager.checkTrainingDataCache(): the keys are looked *)
(* up under 'TRAINING' one after the other, until one is not cached.  The   *)
(* manager it creates is its own; results holds its cacheData.             *)
(***************************************************************************)
StartCheckTrainingDataCache ==
    /\ mgr.pc = "idle"
    /\ mgr.n < MaxLoads
    /\ mgr' = [NewManager EXCEPT !.pc = "cget", !.n = mgr.n + 1,
                                 !.loader = "checkTrainingDataCache", !.idx = 1]
    /\ queue' = Append(queue, Op("get", dataKeys[1], "TRAINING", <<>>, "mgr"))
    /\ ret' = Null
    /\ UNCHANGED <<now, store, last>>

\* faulty variant: an entry with no rows counts as cached
CachedOrEmpty(cached) == cached # Null

\* cached && cached.length > 0
Cached(cached) == NonEmpty(cached)

\* const cached = await window.cacheManager.get(key, 'TRAINING') resolved
CheckCached ==
    /\ mgr.pc = "cget"
    /\ mgr.resolved
    /\ IF Cached(mgr.cached)
       THEN LET m == [mgr EXCEPT !.results[dataKeys[mgr.idx]] = mgr.cached]
            IN IF m.idx < Len(dataKeys)
               THEN /\ mgr' = [m EXCEPT !.idx = @ + 1, !.resolved = FALSE,
                                        !.cached = Null]
                    /\ queue' = Append(queue, Op("get", dataKeys[m.idx + 1],
                                                 "TRAINING", <<>>, "mgr"))
                    /\ UNCHANGED ret
               ELSE /\ mgr' = Idle(m)
                    /\ ret' = Some([needsServerData |-> FALSE,
                                    cacheData |-> Some(m.results)])
                    /\ UNCHANGED queue
       ELSE /\ mgr' = Idle(mgr)
            /\ ret' = Some([needsServerData |-> TRUE, cacheData |-> Null])
            /\ UNCHANGED queue
    /\ UNCHANGED <<now, store, last>>

NextCheck ==
    \/ StartCheckTrainingDataCache
    \/ CheckCached
    \/ GetSuccess
    \/ GetFail
    \/ DeleteRun
    \/ DeleteFail

SpecCheck == InitLoad /\ [][NextCheck]_vars

(***************************************************************************)
(* JavaScript values in the rows and the selections.  A value is its type  *)
(* and its text, so the number 7 and the string "7" are different values   *)
(* with the same string representation.                                    *)
(***************************************************************************)
JsString(t) == [type |-> "string", text |-> t]
JsNumber(t) == [type |-> "number", text |-> t]
undefined == [type |-> "undefined", text |-> "undefined"]

\* String(v)
String(v) == [type |-> "string", text |-> v.text]

\* Boolean(v): undefined, null, 0 and "" are falsy
Boolean(v) ==
    ~ \/ v.type = "undefined"
      \/ (v.type = "number" /\ v.text = "0")
      \/ (v.type = "string" /\ v.text = "")
      \/ v.type = "null"

\* a || b
Or(a, b) == IF Boolean(a) THEN a ELSE b

\* item[field]: a property the row does not have is undefined
Field(item, field) == IF field \in DOMAIN item THEN item[field] ELSE undefined

\* array.includes(v)
includes(array, v) == \E i \in DOMAIN array : array[i] = v

\* new Set(array)
Set(array) == {array[i] : i \in DOMAIN array}

\* array.join(separator) of an array of strings
RECURSIVE join(_, _)
join(array, separator) ==
    IF Len(array) = 0 THEN ""
    ELSE IF Len(array) = 1 THEN array[1].text
    ELSE array[1].text \o separator \o join(Tail(array), separator)

\* a selection argument: an array of strings, or a value that is not an array
NotArray == [isArray |-> FALSE, items |-> <<>>]
Array(items) == [isArray |-> TRUE, items |-> items]

All == JsString("All")

(***************************************************************************)
(* TrainingFilterUtils: a selection that is not an array, is empty or      *)
(* holds "All" filters nothing.                                            *)
(***************************************************************************)
filterByAors(data, selectedAors) ==
    IF ~selectedAors.isArray \/ Len(selectedAors.items) = 0
          \/ includes(selectedAors.items, All)
    THEN data
    ELSE SelectSeq(data, LAMBDA item :
            includes(selectedAors.items, Field(item, "AorShortName")))

filterByOffices(data, selectedOffices) ==
    IF ~selectedOffices.isArray \/ Len(selectedOffices.items) = 0
          \/ includes(selectedOffices.items, All)
    THEN data
    ELSE SelectSeq(data, LAMBDA item :
            includes(selectedOffices.items,
                     Or(Field(item, "MemberOffice"), Field(item, "OfficeCode"))))

filterByTopics(data, selectedTopics) ==
    IF ~selectedTopics.isArray \/ Len(selectedTopics.items) = 0
          \/ includes(selectedTopics.items, All)
    THEN data
    ELSE SelectSeq(data, LAMBDA item :
            includes(selectedTopics.items,
                     String(Or(Field(item, "TrainingTopicId"), Field(item, "TopicId")))))

filterByInstructors(data, selectedInstructors) ==
    IF ~selectedInstructors.isArray \/ Len(selectedInstructors.items) = 0
          \/ includes(selectedInstructors.items, All)
    THEN data
    ELSE SelectSeq(data, LAMBDA item :
            includes(selectedInstructors.items,
                     String(Or(Field(item, "InstructorId"), Field(item, "InstructorID")))))

filterByLocations(data, selectedLocations) ==
    IF ~selectedLocations.isArray \/ Len(selectedLocations.items) = 0
          \/ includes(selectedLocations.items, All)
    THEN data
    ELSE SelectSeq(data, LAMBDA item :
            includes(selectedLocations.items,
                     String(Or(Field(item, "LocationId"), Field(item, "LocationID")))))

filterByClasses(data, selectedClasses) ==
    IF ~selectedClasses.isArray \/ Len(selectedClasses.items) = 0
          \/ includes(selectedClasses.items, All)
    THEN data
    ELSE SelectSeq(data, LAMBDA item :
            includes(selectedClasses.items,
                     String(Or(Field(item, "TrainingClassId"), Field(item, "ClassId")))))

(***************************************************************************)
(* FilterUtils.                                                            *)
(***************************************************************************)
\* the values of an array in the order of their first occurrence
RECURSIVE Unique(_)
Unique(array) ==
    IF Len(array) = 0 THEN <<>>
    ELSE LET front == Unique(SubSeq(array, 1, Len(array) - 1))
             x == array[Len(array)]
         IN IF includes(front, x) THEN front ELSE Append(front, x)

\* [...new Set(data.map(item => item[field]).filter(Boolean))]
getUniqueIds(data, field) ==
    Unique(SelectSeq([i \in DOMAIN data |-> Field(data[i], field)], Boolean))

\* [] for no data, else the "All" option followed by one option per row
createOptions(data, labelField, valueField, allLabel) ==
    IF Len(data) = 0 THEN <<>>
    ELSE <<[label |-> allLabel, value |-> All]>>
         \o [i \in DOMAIN data |->
                [label |-> Field(data[i], labelField),
                 value |-> String(Field(data[i], valueField))]]

(***************************************************************************)
(* TrainingDataManager: the derivations over the snapshot.                 *)
(***************************************************************************)
trainingDataKeys ==
    <<"aors", "offices", "topics", "instructors",
      "locations", "classes", "request_stats", "attendance_stats">>

\* faulty variant: the request stats are left out of the reachable topics
getFilteredTopicsFromAttendance(m, selectedAors, selectedOffices) ==
    LET topics == getData(m, "topics")
        attendanceStats == getData(m, "attendance_stats")
        filteredAttendanceStats ==
            filterByOffices(filterByAors(attendanceStats, selectedAors), selectedOffices)
        topicIds == Set(getUniqueIds(filteredAttendanceStats, "TrainingTopicId"))
    IN SelectSeq(topics, LAMBDA topic : Field(topic, "TopicId") \in topicIds)

\* faulty variant: with the alternative that an empty set of reachable
\* topics admits every topic
getFilteredTopicsOrAll(m, selectedAors, selectedOffices) ==
    LET topics == getData(m, "topics")
        requestStats == getData(m, "request_stats")
        attendanceStats == getData(m, "attendance_stats")
        filteredRequestStats ==
            filterByOffices(filterByAors(requestStats, selectedAors), selectedOffices)
        filteredAttendanceStats ==
            filterByOffices(filterByAors(attendanceStats, selectedAors), selectedOffices)
        topicIds == Set(getUniqueIds(filteredRequestStats, "TrainingTopicId")
                        \o getUniqueIds(filteredAttendanceStats, "TrainingTopicId"))
    IN SelectSeq(topics, LAMBDA topic : topicIds = {} \/ Field(topic, "TopicId") \in topicIds)

getFilteredTopics(m, selectedAors, selectedOffices) ==
    LET topics == getData(m, "topics")
        requestStats == getData(m, "request_stats")
        attendanceStats == getData(m, "attendance_stats")
        filteredRequestStats ==
            filterByOffices(filterByAors(requestStats, selectedAors), selectedOffices)
        filteredAttendanceStats ==
            filterByOffices(filterByAors(attendanceStats, selectedAors), selectedOffices)
        topicIds == Set(getUniqueIds(filteredRequestStats, "TrainingTopicId")
                        \o getUniqueIds(filteredAttendanceStats, "TrainingTopicId"))
    IN SelectSeq(topics, LAMBDA topic : Field(topic, "TopicId") \in topicIds)

\* faulty variant: without the instructorIds.size === 0 alternative
getFilteredInstructorsReachable(m, selectedAors, selectedOffices) ==
    LET instructors == getData(m, "instructors")
        attendanceStats == getData(m, "attendance_stats")
        filteredStats ==
            filterByOffices(filterByAors(attendanceStats, selectedAors), selectedOffices)
        instructorIds == Set(getUniqueIds(filteredStats, "InstructorId"))
    IN SelectSeq(instructors, LAMBDA instructor :
            Field(instructor, "InstructorID") \in instructorIds)

getFilteredInstructors(m, selectedAors, selectedOffices) ==
    LET instructors == getData(m, "instructors")
        attendanceStats == getData(m, "attendance_stats")
        filteredStats ==
            filterByOffices(filterByAors(attendanceStats, selectedAors), selectedOffices)
        instructorIds == Set(getUniqueIds(filteredStats, "InstructorId"))
    IN SelectSeq(instructors, LAMBDA instructor :
            Cardinality(instructorIds) = 0
               \/ Field(instructor, "InstructorID") \in instructorIds)

\* faulty variant: the Topic and the Instructor selection are not applied
getFilteredLocationsOfAllTopics(m, selectedAors, selectedOffices, selectedTopics, selectedInstructors) ==
    LET locations == getData(m, "locations")
        attendanceStats == getData(m, "attendance_stats")
        filteredStats ==
            filterByOffices(filterByAors(attendanceStats, selectedAors), selectedOffices)
        locationIds == Set(getUniqueIds(filteredStats, "LocationId"))
    IN SelectSeq(locations, LAMBDA location :
            Cardinality(locationIds) = 0
               \/ Field(location, "LocationID") \in locationIds)

getFilteredLocations(m, selectedAors, selectedOffices, selectedTopics, selectedInstructors) ==
    LET locations == getData(m, "locations")
        attendanceStats == getData(m, "attendance_stats")
        filteredStats ==
            filterByInstructors(
                filterByTopics(
                    filterByOffices(filterByAors(attendanceStats, selectedAors),
                                    selectedOffices),
                    selectedTopics),
                selectedInstructors)
        locationIds == Set(getUniqueIds(filteredStats, "LocationId"))
    IN SelectSeq(locations, LAMBDA location :
            Cardinality(locationIds) = 0
               \/ Field(location, "LocationID") \in locationIds)

\* faulty variant: the office selection is not applied to the classes
getFilteredClassesOfAllOffices(m, selectedAors, selectedOffices, selectedInstructors, selectedLocations, selectedTopics) ==
    [classes |-> filterByTopics(
                     filterByLocations(
                         filterByInstructors(
                             filterByAors(getData(m, "classes"), selectedAors),
                             selectedInstructors),
                         selectedLocations),
                     selectedTopics),
     topics |-> getData(m, "topics")]

getFilteredClasses(m, selectedAors, selectedOffices, selectedInstructors, selectedLocations, selectedTopics) ==
    LET classes == getData(m, "classes")
        attendanceStats == getData(m, "attendance_stats")
        topics == getData(m, "topics")
        direct ==
            filterByTopics(
                filterByLocations(
                    filterByInstructors(filterByAors(classes, selectedAors),
                                        selectedInstructors),
                    selectedLocations),
                selectedTopics)
        filteredStats == filterByOffices(attendanceStats, selectedOffices)
        classIds == Set(getUniqueIds(filteredStats, "TrainingClassId"))
        filteredClasses ==
            IF selectedOffices.isArray /\ Len(selectedOffices.items) > 0
                  /\ ~includes(selectedOffices.items, All)
            THEN SelectSeq(direct, LAMBDA c : Field(c, "ClassId") \in classIds)
            ELSE direct
    IN [classes |-> filteredClasses, topics |-> topics]

\* the earlier variant of getFilteredClasses: the same steps with the
\* activity tests written out and String(c.InstructorId) etc. compared
getFilteredClassesEarlier(m, selectedAors, selectedOffices, selectedInstructors, selectedLocations, selectedTopics) ==
    LET classes == getData(m, "classes")
        attendanceStats == getData(m, "attendance_stats")
        topics == getData(m, "topics")
        active(selection) ==
            selection.isArray /\ Len(selection.items) > 0
               /\ ~includes(selection.items, All)
        byAors ==
            IF active(selectedAors)
            THEN SelectSeq(classes, LAMBDA c :
                    includes(selectedAors.items, Field(c, "AorShortName")))
            ELSE classes
        byInstructors ==
            IF active(selectedInstructors)
            THEN SelectSeq(byAors, LAMBDA c :
                    includes(selectedInstructors.items, String(Field(c, "InstructorId"))))
            ELSE byAors
        byLocations ==
            IF active(selectedLocations)
            THEN SelectSeq(byInstructors, LAMBDA c :
                    includes(selectedLocations.items, String(Field(c, "LocationId"))))
            ELSE byInstructors
        byTopics ==
            IF active(selectedTopics)
            THEN SelectSeq(byLocations, LAMBDA c :
                    includes(selectedTopics.items, String(Field(c, "TopicId"))))
            ELSE byLocations
        filteredStats == filterByOffices(attendanceStats, selectedOffices)
        classIds == Set(getUniqueIds(filteredStats, "TrainingClassId"))
        filteredClasses ==
            IF active(selectedOffices)
            THEN SelectSeq(byTopics, LAMBDA c : Field(c, "ClassId") \in classIds)
            ELSE byTopics
    IN [classes |-> filteredClasses, topics |-> topics]

(***************************************************************************)
(* TrainingFilterUtils.validateTrainingFilters.  filters.aors and          *)
(* filters.offices are tested for truthiness only (an array, even an empty *)
(* one, is truthy; NotArray stands for undefined) and for "All".           *)
(***************************************************************************)
validateTrainingFilters(filters, dataManager) ==
    IF dataManager = Null \/ ~isReady(The(dataManager))
    THEN [valid |-> FALSE, warnings |-> <<>>,
          errors |-> <<JsString("Training data not ready")>>]
    ELSE LET m == The(dataManager)
             offices == getData(m, "offices")
             matching == SelectSeq(offices, LAMBDA office :
                            includes(filters.aors.items, Field(office, "AorShortName")))
             validOffices == [i \in DOMAIN matching |-> Field(matching[i], "OfficeCode")]
             invalidOffices == SelectSeq(filters.offices.items, LAMBDA office :
                                  ~includes(validOffices, office))
             compatibility ==
                IF filters.aors.isArray /\ filters.offices.isArray
                      /\ ~includes(filters.aors.items, All)
                      /\ ~includes(filters.offices.items, All)
                      /\ Len(invalidOffices) > 0
                THEN <<JsString("Selected offices not available for selected AORs: "
                                \o join(invalidOffices, ", "))>>
                ELSE <<>>
             result == getFilteredClasses(m, filters.aors, filters.offices,
                                          filters.instructors, filters.locations,
                                          filters.topics)
             noClasses ==
                IF Len(result.classes) = 0
                THEN <<JsString("Current filter combination returns no classes")>>
                ELSE <<>>
         IN [valid |-> TRUE, warnings |-> compatibility \o noClasses, errors |-> <<>>]

(***************************************************************************)
(* TrainingDropdownHandlers and FilterUtils.getOfficeOptions: the option   *)
(* lists.  dataManager is Null or the manager.                             *)
(***************************************************************************)
getAorOptions(dataManager) ==
    IF dataManager = Null \/ ~isReady(The(dataManager)) THEN <<>>
    ELSE createOptions(getData(The(dataManager), "aors"),
                       "AorShortName,AorName", "AorShortName", JsString("All AORs"))

\* offices.map(o => ({label: `${o.AorShortName} - ${o.OfficeCode}`, value: o.OfficeCode}))
OfficeItems(offices) ==
    [i \in DOMAIN offices |->
        [label |-> JsString(Field(offices[i], "AorShortName").text \o " - "
                            \o Field(offices[i], "OfficeCode").text),
         value |-> Field(offices[i], "OfficeCode")]]

\* faulty variant: the AOR selection is not applied to the offices
getOfficeOptionsOfAllAors(selectedAors, dataManager) ==
    IF dataManager = Null \/ ~isReady(The(dataManager)) THEN <<>>
    ELSE createOptions(OfficeItems(getData(The(dataManager), "offices")),
                       "label", "value", JsString("All Offices"))

getOfficeOptions(selectedAors, dataManager) ==
    IF dataManager = Null \/ ~isReady(The(dataManager)) THEN <<>>
    ELSE LET active == selectedAors.isArray /\ Len(selectedAors.items) > 0
                          /\ ~includes(selectedAors.items, All)
             all == getData(The(dataManager), "offices")
             offices ==
                IF active
                THEN SelectSeq(all, LAMBDA office :
                        includes(selectedAors.items, Field(office, "AorShortName")))
                ELSE all
             label ==
                IF active
                THEN JsString("All " \o join(selectedAors.items, ",") \o " Offices")
                ELSE JsString("All Offices")
         IN createOptions(OfficeItems(offices), "label", "value", label)

\* FilterUtils.getOfficeOptions: the same with the label for "All" a parameter
FilterUtilsGetOfficeOptions(selectedAors, dataManager, allLabel) ==
    IF dataManager = Null \/ ~isReady(The(dataManager)) THEN <<>>
    ELSE LET active == selectedAors.isArray /\ Len(selectedAors.items) > 0
                          /\ ~includes(selectedAors.items, All)
             all == getData(The(dataManager), "offices")
             offices ==
                IF active
                THEN SelectSeq(all, LAMBDA office :
                        includes(selectedAors.items, Field(office, "AorShortName")))
                ELSE all
             label ==
                IF active
                THEN JsString("All " \o join(selectedAors.items, ",") \o " Offices")
                ELSE allLabel
         IN createOptions(OfficeItems(offices), "label", "value", label)

getTopicOptions(selectedAors, selectedOffices, dataManager) ==
    IF dataManager = Null \/ ~isReady(The(dataManager)) THEN <<>>
    ELSE createOptions(getFilteredTopics(The(dataManager), selectedAors, selectedOffices),
                       "TopicName", "TopicId", JsString("All Topics"))

getInstructorOptions(selectedAors, selectedOffices, dataManager) ==
    IF dataManager = Null \/ ~isReady(The(dataManager)) THEN <<>>
    ELSE createOptions(
             getFilteredInstructors(The(dataManager), selectedAors, selectedOffices),
             "Name", "InstructorID", JsString("All Instructors"))

getLocationOptions(selectedAors, selectedOffices, selectedTopics, selectedInstructors, dataManager) ==
    IF dataManager = Null \/ ~isReady(The(dataManager)) THEN <<>>
    ELSE createOptions(
             getFilteredLocations(The(dataManager), selectedAors, selectedOffices,
                                  selectedTopics, selectedInstructors),
             "Name", "LocationID", JsString("All Locations"))

getClassOptions(selectedAors, selectedOffices, selectedInstructors, selectedLocations, selectedTopics, dataManager) ==
    IF dataManager = Null \/ ~isReady(The(dataManager)) THEN <<>>
    ELSE LET result == getFilteredClasses(The(dataManager), selectedAors, selectedOffices,
                                          selectedInstructors, selectedLocations,
                                          selectedTopics)
             filteredClasses == result.classes
             topics == result.topics
             selectedTopicNames ==
                LET chosen == SelectSeq(topics, LAMBDA t :
                                 includes(selectedTopics.items, String(Field(t, "TopicId"))))
                IN [i \in DOMAIN chosen |-> Field(chosen[i], "TopicName")]
             allLabel ==
                IF selectedTopics.isArray /\ Len(selectedTopics.items) > 0
                      /\ ~includes(selectedTopics.items, All)
                THEN JsString("All " \o join(selectedTopicNames, ",") \o " Classes")
                ELSE JsString("All Classes")
         IN IF Len(filteredClasses) = 0
            THEN <<[label |-> JsString("No classes found"), value |-> JsString(""),
                    disabled |-> TRUE]>>
            ELSE <<[label |-> allLabel, value |-> All]>>
                 \o [i \in DOMAIN filteredClasses |->
                        [label |-> JsString(Field(filteredClasses[i], "ClassName").text
                                            \o ": "
                                            \o Field(filteredClasses[i], "StartTime").text),
                         value |-> Field(filteredClasses[i], "ClassId")]]

(***************************************************************************)
(* The snapshots the derivations are applied to.  The dimension tables are *)
(* fixed; the classes and the two fact tables are rows of a pool, in the   *)
(* pool's order.  A load stores only non-empty collections, so a table     *)
(* without rows is a key that is not loaded.                               *)
(***************************************************************************)
Aors ==
    <<[AorShortName |-> JsString("EAST"), AorName |-> JsString("East")],
      [AorShortName |-> JsString("WEST"), AorName |-> JsString("West")]>>

Offices ==
    <<[OfficeCode |-> JsString("E1"), AorShortName |-> JsString("EAST")],
      [OfficeCode |-> JsString("W1"), AorShortName |-> JsString("WEST")]>>

Topics ==
    <<[TopicId |-> JsNumber("1"), TopicName |-> JsString("Basics")],
      [TopicId |-> JsNumber("2"), TopicName |-> JsString("Forms")]>>

Instructors ==
    <<[InstructorID |-> JsNumber("1"), Name |-> JsString("Ann")],
      [InstructorID |-> JsNumber("2"), Name |-> JsString("Bob")]>>

Locations ==
    <<[LocationID |-> JsNumber("1"), Name |-> JsString("Room")],
      [LocationID |-> JsNumber("2"), Name |-> JsString("Online")]>>

Class(id, aor, instructor, location, topic) ==
    [ClassId |-> JsNumber(id), ClassName |-> JsString("Class " \o id),
     StartTime |-> JsString("Feb-04-25@6 PM"), AorShortName |-> JsString(aor),
     InstructorId |-> JsNumber(instructor), LocationId |-> JsNumber(location),
     TopicId |-> JsNumber(topic)]

ClassPool ==
    <<Class("1", "EAST", "1", "1", "1"),
      Class("2", "WEST", "2", "2", "2"),
      Class("3", "EAST", "2", "1", "2")>>

Attendance(aor, office, topic, instructor, location, class) ==
    [AorShortName |-> JsString(aor), MemberOffice |-> JsString(office),
     TrainingTopicId |-> JsNumber(topic), InstructorId |-> JsNumber(instructor),
     LocationId |-> JsNumber(location), TrainingClassId |-> JsNumber(class)]

\* the last row names its office in OfficeCode, references no instructor,
\* location or class, and references topic 1 as the string "1"
AttendancePool ==
    <<Attendance("EAST", "E1", "1", "1", "1", "1"),
      Attendance("WEST", "W1", "2", "2", "2", "2"),
      Attendance("EAST", "W1", "2", "2", "1", "3"),
      [AorShortName |-> JsString("WEST"), OfficeCode |-> JsString("E1"),
       TrainingTopicId |-> JsString("1")]>>

Request(aor, office, topic) ==
    [AorShortName |-> JsString(aor), MemberOffice |-> JsString(office),
     TrainingTopicId |-> JsNumber(topic)]

RequestPool ==
    <<Request("EAST", "E1", "2"),
      Request("WEST", "W1", "1")>>

\* the rows of the pool at the positions S, in the pool's order
Pick(pool, S) ==
    LET F[i \in 0..Len(pool)] ==
            IF i = 0 THEN <<>>
            ELSE IF i \in S THEN Append(F[i - 1], pool[i]) ELSE F[i - 1]
    IN F[Len(pool)]

SubTables(pool, max) ==
    {Pick(pool, S) : S \in {T \in SUBSET DOMAIN pool : Cardinality(T) <= max}}

Loaded(table) == IF Len(table) = 0 THEN Null ELSE Some(table)

Snapshot(classes, attendanceStats, requestStats) ==
    [aors |-> Some(Aors), offices |-> Some(Offices), topics |-> Some(Topics),
     instructors |-> Some(Instructors), locations |-> Some(Locations),
     classes |-> Loaded(classes), request_stats |-> Loaded(requestStats),
     attendance_stats |-> Loaded(attendanceStats)]

\* new TrainingDataManager() after loads that left it the snapshot
TrainingManager(snapshot) ==
    [NewManager EXCEPT !.dataKeys = trainingDataKeys, !.cache = snapshot]

FullSnapshot ==
    Snapshot(Pick(ClassPool, 1..MaxClasses), Pick(AttendancePool, 1..MaxStats),
             Pick(RequestPool, 1..MaxStats))

Snapshots ==
    {Snapshot(c, a, r) : c \in SubTables(ClassPool, MaxClasses),
                         a \in SubTables(AttendancePool, MaxStats),
                         r \in SubTables(RequestPool, MaxStats)}
    \cup {[FullSnapshot EXCEPT ![trainingDataKeys[i]] = Null] :
             i \in DOMAIN trainingDataKeys}

(***************************************************************************)
(* The selections the derivations are called with.                         *)
(***************************************************************************)
AorSelections ==
    {NotArray, Array(<<>>), Array(<<All>>),
     Array(<<JsString("EAST")>>), Array(<<JsString("WEST")>>)}

OfficeSelections ==
    {Array(<<>>), Array(<<JsString("W1"), All>>),
     Array(<<JsString("E1")>>), Array(<<JsString("W1")>>)}

TopicSelections ==
    {Array(<<>>), Array(<<JsString("1")>>), Array(<<JsString("2")>>)}

InstructorSelections ==
    {NotArray, Array(<<JsString("1")>>), Array(<<JsString("2")>>)}

LocationSelections ==
    {Array(<<All>>), Array(<<JsString("1")>>), Array(<<JsString("2")>>)}

\* a call and what it returned; an argument the operation does not take is
\* undefined.  The derivations are synchronous and read only the snapshot:
\* each behaviour is one call on one snapshot.
Called(op, dataManager, aors, offices, topics, instructors, locations, value) ==
    Some([op |-> op, dataManager |-> dataManager # Null, selectedAors |-> aors,
          selectedOffices |-> offices, selectedTopics |-> topics,
          selectedInstructors |-> instructors, selectedLocations |-> locations,
          value |-> value])

InitFilter ==
    /\ now = 0
    /\ store = EmptyStore
    /\ queue = <<>>
    /\ last = NoLast
    /\ mgr \in {TrainingManager(s) : s \in Snapshots}
    /\ ret = Null

CallGetFilteredTopics ==
    /\ ret = Null
    /\ \E a \in AorSelections, o \in OfficeSelections :
          ret' = Called("getFilteredTopics", Some(mgr), a, o, NotArray, NotArray,
                        NotArray, getFilteredTopics(mgr, a, o))
    /\ UNCHANGED <<now, store, queue, last, mgr>>

CallGetFilteredInstructors ==
    /\ ret = Null
    /\ \E a \in AorSelections, o \in OfficeSelections :
          ret' = Called("getFilteredInstructors", Some(mgr), a, o, NotArray, NotArray,
                        NotArray, getFilteredInstructors(mgr, a, o))
    /\ UNCHANGED <<now, store, queue, last, mgr>>

CallGetFilteredLocations ==
    /\ ret = Null
    /\ \E a \in AorSelections, o \in OfficeSelections,
          t \in TopicSelections, i \in InstructorSelections :
          ret' = Called("getFilteredLocations", Some(mgr), a, o, t, i, NotArray,
                        getFilteredLocations(mgr, a, o, t, i))
    /\ UNCHANGED <<now, store, queue, last, mgr>>

CallGetFilteredClasses ==
    /\ ret = Null
    /\ \E a \in AorSelections, o \in OfficeSelections, t \in TopicSelections,
          i \in InstructorSelections, l \in LocationSelections :
          ret' = Called("getFilteredClasses", Some(mgr), a, o, t, i, l,
                        getFilteredClasses(mgr, a, o, i, l, t))
    /\ UNCHANGED <<now, store, queue, last, mgr>>

CallGetAorOptions ==
    /\ ret = Null
    /\ ret' = Called("getAorOptions", Some(mgr), NotArray, NotArray, NotArray,
                     NotArray, NotArray, getAorOptions(Some(mgr)))
    /\ UNCHANGED <<now, store, queue, last, mgr>>

CallGetOfficeOptions ==
    /\ ret = Null
    /\ \E a \in AorSelections :
          ret' = Called("getOfficeOptions", Some(mgr), a, NotArray, NotArray,
                        NotArray, NotArray, getOfficeOptions(a, Some(mgr)))
    /\ UNCHANGED <<now, store, queue, last, mgr>>

CallFilterUtilsGetOfficeOptions ==
    /\ ret = Null
    /\ \E a \in AorSelections :
          ret' = Called("FilterUtils.getOfficeOptions", Some(mgr), a, NotArray,
                        NotArray, NotArray, NotArray,
                        FilterUtilsGetOfficeOptions(a, Some(mgr),
                                                    JsString("All Offices")))
    /\ UNCHANGED <<now, store, queue, last, mgr>>

CallGetTopicOptions ==
    /\ ret = Null
    /\ \E a \in AorSelections, o \in OfficeSelections :
          ret' = Called("getTopicOptions", Some(mgr), a, o, NotArray, NotArray,
                        NotArray, getTopicOptions(a, o, Some(mgr)))
    /\ UNCHANGED <<now, store, queue, last, mgr>>

CallGetInstructorOptions ==
    /\ ret = Null
    /\ \E a \in AorSelections, o \in OfficeSelections :
          ret' = Called("getInstructorOptions", Some(mgr), a, o, NotArray, NotArray,
                        NotArray, getInstructorOptions(a, o, Some(mgr)))
    /\ UNCHANGED <<now, store, queue, last, mgr>>

CallGetLocationOptions ==
    /\ ret = Null
    /\ \E a \in AorSelections, o \in OfficeSelections,
          t \in TopicSelections, i \in InstructorSelections :
          ret' = Called("getLocationOptions", Some(mgr), a, o, t, i, NotArray,
                        getLocationOptions(a, o, t, i, Some(mgr)))
    /\ UNCHANGED <<now, store, queue, last, mgr>>

CallGetClassOptions ==
    /\ ret = Null
    /\ \E a \in AorSelections, o \in OfficeSelections, t \in TopicSelections,
          i \in InstructorSelections, l \in LocationSelections :
          ret' = Called("getClassOptions", Some(mgr), a, o, t, i, l,
                        getClassOptions(a, o, i, l, t, Some(mgr)))
    /\ UNCHANGED <<now, store, queue, last, mgr>>

Filters(aors, offices, topics, instructors, locations) ==
    [aors |-> aors, offices |-> offices, topics |-> topics,
     instructors |-> instructors, locations |-> locations]

CallValidateTrainingFilters ==
    /\ ret = Null
    /\ \E a \in AorSelections, o \in OfficeSelections, t \in TopicSelections :
          ret' = Called("validateTrainingFilters", Some(mgr), a, o, t, NotArray,
                        NotArray,
                        validateTrainingFilters(Filters(a, o, t, NotArray, NotArray),
                                                Some(mgr)))
    /\ UNCHANGED <<now, store, queue, last, mgr>>

\* the option lists asked for before there is a manager (dataManager is null)
CallWithoutManager ==
    /\ ret = Null
    /\ \E a \in AorSelections :
          \/ ret' = Called("getAorOptions", Null, NotArray, NotArray, NotArray,
                           NotArray, NotArray, getAorOptions(Null))
          \/ ret' = Called("getOfficeOptions", Null, a, NotArray, NotArray, NotArray,
                           NotArray, getOfficeOptions(a, Null))
          \/ ret' = Called("FilterUtils.getOfficeOptions", Null, a, NotArray,
                           NotArray, NotArray, NotArray,
                           FilterUtilsGetOfficeOptions(a, Null, JsString("All Offices")))
          \/ ret' = Called("getTopicOptions", Null, a, NotArray, NotArray, NotArray,
                           NotArray, getTopicOptions(a, NotArray, Null))
          \/ ret' = Called("getInstructorOptions", Null, a, NotArray, NotArray,
                           NotArray, NotArray, getInstructorOptions(a, NotArray, Null))
          \/ ret' = Called("getLocationOptions", Null, a, NotArray, NotArray,
                           NotArray, NotArray,
                           getLocationOptions(a, NotArray, NotArray, NotArray, Null))
          \/ ret' = Called("getClassOptions", Null, a, NotArray, NotArray, NotArray,
                           NotArray,
                           getClassOptions(a, NotArray, NotArray, NotArray, NotArray,
                                           Null))
    /\ UNCHANGED <<now, store, queue, last, mgr>>

NextFilter ==
    \/ CallGetFilteredTopics
    \/ CallGetFilteredInstructors
    \/ CallGetFilteredLocations
    \/ CallGetFilteredClasses
    \/ CallGetAorOptions
    \/ CallGetOfficeOptions
    \/ CallFilterUtilsGetOfficeOptions
    \/ CallGetTopicOptions
    \/ CallGetInstructorOptions
    \/ CallGetLocationOptions
    \/ CallGetClassOptions
    \/ CallValidateTrainingFilters
    \/ CallWithoutManager

SpecFilter == InitFilter /\ [][NextFilter]_vars

(***************************************************************************)
(* TrainingSummaryUtils: the filters and the metrics of the summary cards. *)
(* A table is an array of rows or not an array; a row is an object or      *)
(* null.                                                                   *)
(***************************************************************************)
\* the value null in a row, and a row that is null
JsNull == [type |-> "null", text |-> "null"]
nullRow == [null |-> JsNull]

\* row.hasOwnProperty(field)
hasOwnProperty(row, field) == field \in DOMAIN row

\* parseInt(v) || 0 for the counters of the model: a number or a numeric
\* string gives its integer, anything else (null, undefined) NaN and so 0
ParseIntOrZero(v) ==
    IF v.type \in {"number", "string"}
    THEN CASE v.text = "3" -> 3
           [] v.text = "4" -> 4
           [] OTHER -> 0
    ELSE 0

\* faulty variant: the rows are counted whether or not they carry the counter
CountedRows(table, counter) ==
    IF ~table.isArray THEN [threw |-> FALSE, n |-> 0]
    ELSE IF \E i \in DOMAIN table.items : table.items[i] = nullRow
    THEN [threw |-> TRUE, n |-> 0]
    ELSE [threw |-> FALSE, n |-> Len(table.items)]

\* the second and third step of calculateMetrics: the sum of the counter
\* when the first row has it, the number of rows otherwise; threw when the
\* step reads a property of a row that is null
Counted(table, counter) ==
    IF ~table.isArray THEN [threw |-> FALSE, n |-> 0]
    ELSE IF Len(table.items) > 0 /\ table.items[1] = nullRow
    THEN [threw |-> TRUE, n |-> 0]
    ELSE IF Len(table.items) > 0 /\ hasOwnProperty(table.items[1], counter)
    THEN LET sum[i \in 0..Len(table.items)] ==
                 IF i = 0 THEN 0
                 ELSE sum[i - 1] + ParseIntOrZero(Field(table.items[i], counter))
         IN [threw |-> \E i \in DOMAIN table.items : table.items[i] = nullRow,
             n |-> sum[Len(table.items)]]
    ELSE [threw |-> FALSE, n |-> Len(table.items)]

\* calculateMetrics: the four metrics are assigned one after the other
\* inside one try block, so a metric is left at 0 when its step or an
\* earlier one threw; error says that the catch block reported an error
calculateMetrics(classes, attendance, requests, activeMembers) ==
    LET a == Counted(attendance, "TotalAttendances")
        r == Counted(requests, "TotalRequests")
        m == activeMembers.isArray
             /\ \E i \in DOMAIN activeMembers.items : activeMembers.items[i] = nullRow
    IN [totalClasses |-> IF classes.isArray THEN Len(classes.items) ELSE 0,
        totalAttendances |-> IF a.threw THEN 0 ELSE a.n,
        totalRequests |-> IF a.threw \/ r.threw THEN 0 ELSE r.n,
        activeMembers |-> IF a.threw \/ r.threw \/ m \/ ~activeMembers.isArray THEN 0
                          ELSE Cardinality({Field(x, "MemberID") : x \in Set(activeMembers.items)}),
        error |-> a.threw \/ r.threw \/ m]

\* the tables the summary is computed from.  A statistics table has the
\* counter in every row (as a number, a numeric string or null), in no row,
\* or holds a row that is null
StatTables(counter) ==
    LET row(aor, office, v) ==
            (counter :> v) @@ [AorShortName |-> JsString(aor),
                               MemberOffice |-> JsString(office)]
        bare(aor, office) ==
            [AorShortName |-> JsString(aor), MemberOffice |-> JsString(office)]
    IN {NotArray, Array(<<>>),
        Array(<<row("EAST", "E1", JsNumber("3")), row("WEST", "W1", JsString("4"))>>),
        Array(<<row("EAST", "E1", JsNumber("3")), row("EAST", "W1", JsNull)>>),
        Array(<<bare("EAST", "E1"), bare("WEST", "W1")>>),
        Array(<<nullRow>>),
        Array(<<row("EAST", "E1", JsNumber("3")), nullRow>>)}

Member(id, office) == [MemberID |-> JsNumber(id), OfficeCode |-> JsString(office)]

MemberTables ==
    {NotArray, Array(<<>>),
     Array(<<Member("1", "E1"), Member("1", "E1"), Member("2", "W1")>>),
     Array(<<Member("1", "E1"), Member("2", "E2"), Member("3", "W1")>>),
     Array(<<Member("1", "E1"), nullRow>>)}

ClassTables == {NotArray, Array(<<>>), Array(ClassPool)}

CallCalculateMetrics ==
    /\ ret = Null
    /\ \E c \in ClassTables, a \in StatTables("TotalAttendances"), r \in StatTables("TotalRequests"), m \in MemberTables :
          ret' = Some([op |-> "calculateMetrics", classes |-> c, attendance |-> a,
                       requests |-> r, activeMembers |-> m,
                       value |-> calculateMetrics(c, a, r, m)])
    /\ UNCHANGED <<now, store, queue, last, mgr>>

\* parseFilterList: the quoted items of the filter string, split at ", ",
\* without the quotes and without the items that are empty
parseFilterList(filterStr) ==
    IF ~Boolean(filterStr) THEN <<>>
    ELSE CASE filterStr.text = "'EAST'" -> <<JsString("EAST")>>
           [] filterStr.text = "'EAST', 'WEST'" -> <<JsString("EAST"), JsString("WEST")>>
           [] filterStr.text = "'1'" -> <<JsString("1")>>
           [] filterStr.text = "'2'" -> <<JsString("2")>>
           [] filterStr.text = "'1', '2'" -> <<JsString("1"), JsString("2")>>
           [] filterStr.text = "'NORTH'" -> <<JsString("NORTH")>>
           [] filterStr.text = "'E1'" -> <<JsString("E1")>>
           [] filterStr.text = "'E1', 'W1'" -> <<JsString("E1"), JsString("W1")>>
           [] filterStr.text = "''" -> <<>>
           [] OTHER -> <<JsString(filterStr.text)>>

\* A Date: an instant in hours since 2025-01-31T00:00Z, or an Invalid Date
Date(time) == [valid |-> TRUE, time |-> time]
InvalidDate == [valid |-> FALSE, time |-> 0]

\* the hours the local clock of the host is behind UTC
TimezoneOffsets == {0, 5}

\* new Date(string): "YYYY-MM-DD" is midnight UTC of the day, "Mon DD YYYY
\* h:00 PM" that hour of the day on the local clock, anything else invalid
NewDate(text, timezoneOffset) ==
    CASE text = "2025-01-31" -> Date(0)
      [] text = "2025-02-01" -> Date(24)
      [] text = "2025-02-28" -> Date(672)
      [] text = "Jan 31 2025 8:00 PM" -> Date(20 + timezoneOffset)
      [] text = "Feb 04 2025 6:00 PM" -> Date(114 + timezoneOffset)
      [] text = "Feb 28 2025 6:00 PM" -> Date(690 + timezoneOffset)
      [] OTHER -> InvalidDate

\* parseCustomDateTime: null for no string and for a string with "@" that
\* does not give a date; a string without "@" goes to new Date as it is, and
\* comes back as an Invalid Date when it is no date.  A value that is not a
\* string has no includes method: the TypeError is caught and gives null.
parseCustomDateTime(dateStr, timezoneOffset) ==
    IF ~Boolean(dateStr) \/ dateStr.type # "string" THEN Null
    ELSE IF dateStr.text \in {"Jan-31-25@8 PM", "Feb-04-25@6 PM", "Feb-28-25@6 PM", "Soon@Noon"}
    THEN LET dateString == CASE dateStr.text = "Jan-31-25@8 PM" -> "Jan 31 2025 8:00 PM"
                             [] dateStr.text = "Feb-04-25@6 PM" -> "Feb 04 2025 6:00 PM"
                             [] dateStr.text = "Feb-28-25@6 PM" -> "Feb 28 2025 6:00 PM"
                             [] OTHER -> "Soon undefined undefined Noon"
             parsedDate == NewDate(dateString, timezoneOffset)
         IN IF parsedDate.valid THEN Some(parsedDate) ELSE Null
    ELSE Some(NewDate(dateStr.text, timezoneOffset))

\* faulty variant: a filter with a selection is applied whatever the rows carry
AppliesUnchecked(list, filtered, field) == Len(list) > 0

\* the guard of a filter of filterClasses: the selection has items, rows are
\* left and the first of them has the field
Applies(list, filtered, field) ==
    Len(list) > 0 /\ Len(filtered) > 0 /\ hasOwnProperty(filtered[1], field)

\* faulty variant: the end of the range is excluded
InRangeOpen(parsed, start_date, end_date) ==
    /\ parsed.valid /\ start_date.valid /\ end_date.valid
    /\ parsed.time >= start_date.time /\ parsed.time < end_date.time

\* ParsedStartTime >= start_date && ParsedStartTime <= end_date: a comparison
\* with an Invalid Date is false
InRange(parsed, start_date, end_date) ==
    /\ parsed.valid /\ start_date.valid /\ end_date.valid
    /\ parsed.time >= start_date.time /\ parsed.time <= end_date.time

\* filterClasses(classes, selections) on a host with the given clock;
\* selections is Null when the caller passes no object
filterClasses(classes, selections, timezoneOffset) ==
    IF ~classes.isArray THEN <<>>
    ELSE IF selections = Null THEN classes.items
    ELSE LET sel == The(selections)
             list(key) == parseFilterList(Or(Field(sel, key), JsString("")))
             by(filtered, key, field, string) ==
                 IF Applies(list(key), filtered, field)
                 THEN SelectSeq(filtered,
                                LAMBDA cls : includes(list(key),
                                                      IF string THEN String(Field(cls, field))
                                                      ELSE Field(cls, field)))
                 ELSE filtered
             byAor == by(classes.items, "AORs", "AorShortName", FALSE)
             start_date_str == Field(sel, "Day_From")
             end_date_str == Field(sel, "Day_To")
             byDate ==
                 IF /\ Len(byAor) > 0 /\ hasOwnProperty(byAor[1], "StartTime")
                    /\ Boolean(start_date_str) /\ Boolean(end_date_str)
                 THEN SelectSeq(byAor,
                                LAMBDA cls :
                                    LET ParsedStartTime ==
                                            parseCustomDateTime(cls.StartTime, timezoneOffset)
                                    IN /\ ParsedStartTime # Null
                                       /\ InRange(The(ParsedStartTime),
                                                  NewDate(start_date_str.text, timezoneOffset),
                                                  NewDate(end_date_str.text, timezoneOffset)))
                 ELSE byAor
             byTopic == by(byDate, "Topics", "TopicId", TRUE)
             byInstructor == by(byTopic, "Instructors", "InstructorId", TRUE)
         IN by(byInstructor, "Locations", "LocationId", TRUE)

\* the classes of the summary: rows with every column, their start times in
\* and out of February, at the last instant of the range, without a date, not
\* a string or null; and rows with the class and its AOR only
Starting(class, startTime) == [class EXCEPT !.StartTime = startTime]

SummaryClassPool ==
    <<Starting(ClassPool[1], JsString("Feb-04-25@6 PM")),
      Starting(ClassPool[2], JsString("Feb-28-25@6 PM")),
      Starting(ClassPool[3], JsString("Jan-31-25@8 PM")),
      Starting(ClassPool[1], JsString("2025-02-28")),
      Starting(ClassPool[2], JsString("TBD")),
      Starting(ClassPool[3], JsString("Soon@Noon")),
      Starting(ClassPool[1], JsNumber("20250204")),
      Starting(ClassPool[2], JsNull)>>

SummaryClassTables ==
    {NotArray,
     Array(<<[ClassId |-> JsNumber("1"), AorShortName |-> JsString("EAST")],
             [ClassId |-> JsNumber("2"), AorShortName |-> JsString("WEST")]>>),
     Array(<<[ClassId |-> JsNumber("1"), StartTime |-> JsString("TBD")],
             [ClassId |-> JsNumber("2"), StartTime |-> JsString("Feb-04-25@6 PM")]>>)}
    \cup {Array(t) : t \in SubTables(SummaryClassPool, MaxClasses)}

\* the query selections: no object, or the filter strings of the page, a
\* selection that was not made being undefined or empty
QuerySelections ==
    {Null} \cup
    {Some(s) : s \in
        [AORs : {undefined, JsString("'EAST'"), JsString("'EAST', 'WEST'"), JsString("''")},
         Day_From : {undefined, JsString(""), JsString("2025-02-01")},
         Day_To : {undefined, JsString("2025-01-31"), JsString("2025-02-28")},
         Topics : {undefined, JsString("'1'"), JsString("'1', '2'")},
         Instructors : {undefined, JsString("'2'")},
         Locations : {undefined, JsString("'1'")}]}

CallFilterClasses ==
    /\ ret = Null
    /\ \E c \in SummaryClassTables, s \in QuerySelections, tz \in TimezoneOffsets :
          ret' = Some([op |-> "filterClasses", classes |-> c, selections |-> s,
                       timezoneOffset |-> tz, value |-> filterClasses(c, s, tz)])
    /\ UNCHANGED <<now, store, queue, last, mgr>>

\* filterActiveMembers: by the selected offices, or else by the offices of
\* the selected AORs, and only when that gives an office to filter by
filterActiveMembers(activeMembers, offices, selections) ==
    IF ~activeMembers.isArray THEN <<>>
    ELSE IF selections = Null THEN activeMembers.items
    ELSE LET sel == The(selections)
             aor_list == parseFilterList(Or(Field(sel, "AORs"), JsString("")))
             office_list == parseFilterList(Or(Field(sel, "Offices"), JsString("")))
             aor_offices == SelectSeq(offices.items,
                                      LAMBDA office : includes(aor_list, Field(office, "AorShortName")))
             offices_to_filter ==
                 IF Len(office_list) > 0 THEN office_list
                 ELSE IF Len(aor_list) > 0 /\ offices.isArray
                 THEN Unique([i \in DOMAIN aor_offices |-> Field(aor_offices[i], "OfficeCode")])
                 ELSE <<>>
         IN IF Len(offices_to_filter) > 0
            THEN SelectSeq(activeMembers.items,
                           LAMBDA member : includes(offices_to_filter, Field(member, "OfficeCode")))
            ELSE activeMembers.items

\* the selections of AORs and offices; no office belongs to the AOR NORTH
MemberSelections ==
    {Null} \cup
    {Some(s) : s \in
        [AORs : {undefined, JsString("'EAST'"), JsString("'EAST', 'WEST'"), JsString("'NORTH'")},
         Offices : {undefined, JsString("''"), JsString("'E1'"), JsString("'E1', 'W1'")}]}

CallFilterActiveMembers ==
    /\ ret = Null
    /\ \E m \in MemberTables \ {Array(<<Member("1", "E1"), nullRow>>)},
          o \in {NotArray, Array(<<>>), Array(Offices)}, s \in MemberSelections :
          ret' = Some([op |-> "filterActiveMembers", activeMembers |-> m, offices |-> o,
                       selections |-> s, value |-> filterActiveMembers(m, o, s)])
    /\ UNCHANGED <<now, store, queue, last, mgr>>

NextSummary ==
    \/ CallCalculateMetrics
    \/ CallFilterClasses
    \/ CallFilterActiveMembers

SpecSummary == Init /\ [][NextSummary]_vars

(***************************************************************************)
(* TrainingDataManager.validateData, on a manager whose snapshot may hold   *)
(* classes that reference a topic, instructor or location that is not      *)
(* loaded.                                                                 *)
(***************************************************************************)
\* validateData: an issue for every data key without rows, and one issue that
\* lists the topic ids of classes that no topic row has, when there are
\* classes and topics.  The instructors and locations are read and not used.
validateData(m) ==
    LET empty == SelectSeq(m.dataKeys, LAMBDA key : Len(getData(m, key)) = 0)
        missing == [i \in DOMAIN empty |->
                       [issue |-> "Missing or empty data for", key |-> empty[i], ids |-> <<>>]]
        classes == getData(m, "classes")
        topics == getData(m, "topics")
        classTopicIds == Unique([i \in DOMAIN classes |-> Field(classes[i], "TopicId")])
        missingTopics ==
            SelectSeq(classTopicIds,
                      LAMBDA id : ~ \E t \in DOMAIN topics : Field(topics[t], "TopicId") = id)
        issues == IF Len(classes) > 0 /\ Len(topics) > 0 /\ Len(missingTopics) > 0
                  THEN Append(missing, [issue |-> "Classes reference missing topics",
                                        key |-> "topics", ids |-> missingTopics])
                  ELSE missing
    IN [valid |-> Len(issues) = 0, issues |-> issues]

\* classes 4, 5 and 6 reference topic 3, instructor 3 and location 3, which
\* no dimension table has
ValidatedSnapshots ==
    LET pool == ClassPool \o <<Class("4", "EAST", "1", "1", "3"),
                               Class("5", "WEST", "3", "1", "1"),
                               Class("6", "WEST", "1", "3", "2")>>
    IN {[FullSnapshot EXCEPT !.classes = Loaded(c), !.topics = t,
                             !.instructors = i, !.locations = l] :
            c \in SubTables(pool, MaxClasses), t \in {Null, Some(Topics)},
            i \in {Null, Some(Instructors)}, l \in {Null, Some(Locations)}}

InitValidate ==
    /\ now = 0
    /\ store = EmptyStore
    /\ queue = <<>>
    /\ last = NoLast
    /\ mgr \in {TrainingManager(s) : s \in ValidatedSnapshots}
    /\ ret = Null

CallValidateData ==
    /\ ret = Null
    /\ ret' = Some([op |-> "validateData", dataManager |-> mgr, value |-> validateData(mgr)])
    /\ UNCHANGED <<now, store, queue, last, mgr>>

NextValidate ==
    \/ CallValidateData

SpecValidate == InitValidate /\ [][NextValidate]_vars

(***************************************************************************)
(* Claims about the cache store, checked under Spec.                       *)
(***************************************************************************)
\* the record now stored under the key of the last request
LastEntry == store[last.store][last.key]

\* C1: a get that finds a record older than the TTL resolves null and, once
\* it has resolved, the stale record is gone from its store; a get that
\* finds a record of age at most the TTL resolves with its value and the
\* record stays in place.
C1_StaleGetPurges ==
    (last.op = "get" /\ last.ok) =>
        /\ last.stale => (last.res = Null /\ LastEntry = Null)
        /\ (~last.stale /\ last.res # Null) =>
              (LastEntry # Null /\ The(LastEntry).value = The(last.res))

\* C2: round trip.  When a get runs directly after a set of the same store
\* and key that resolved true, it resolves with the value the set was given
\* if no more than the TTL has passed since the set stamped its record, and
\* with null if more has passed.
C2_RoundTrip ==
    [][(last.op = "set" /\ last.ok /\ last'.op = "get" /\ last'.ok
        /\ last'.key = last.key /\ last'.store = last.store)
       => last'.res = IF now - The(LastEntry).timestamp <= CACHE_TTL
                      THEN Some(last.arg)
                      ELSE Null]_vars

\* C2 witness: a get that ran directly after a successful set of its key has
\* resolved with a value.
C2_Witness ==
    last.op = "get" /\ last.ok /\ last.afterSet /\ last.res = Some(<<2>>)

\* C14: writes to one store and key are last-write-wins with no merge.  A set
\* that resolves true leaves under its key exactly the record built from its
\* own arguments, whatever record was there, and touches no other entry; a
\* get that runs while sets are in flight changes nothing and resolves with
\* null or with the whole value of the record stored when its request runs,
\* which is the record of the set applied last.
C14_LastWriteWins ==
    [][(queue # <<>> /\ queue' # queue /\ Len(queue') <= Len(queue)
        /\ last'.ok /\ last'.op = Head(queue).op) =>
          LET o == Head(queue)
              s == StoreName(o.dashboard)
          IN /\ o.op = "set" =>
                   store' = [store EXCEPT ![s][o.key] =
                               Some([key |-> o.key, value |-> o.value,
                                     timestamp |-> now,
                                     dashboard |-> ToLowerCase(o.dashboard)])]
             /\ o.op = "get" =>
                   /\ store' = store
                   /\ last'.res \in
                         {Null} \cup {Some(r.value) : r \in store[s][o.key]}
                   /\ (last.op = "set" /\ last.ok /\ last.key = o.key
                       /\ last.store = s /\ ~last'.stale) =>
                         last'.res = Some(last.arg)]_vars

\* C14 witness: a set has replaced the record another set wrote under the
\* same store and key with a different value, while a get of that key is in
\* flight.
C14_Witness ==
    /\ last.op = "set" /\ last.ok
    /\ last.prev # Null
    /\ The(last.prev).value # last.arg
    /\ The(LastEntry).value = last.arg
    /\ queue # <<>>
    /\ Head(queue).op = "get"
    /\ Head(queue).key = last.key
    /\ StoreName(Head(queue).dashboard) = last.store

(***************************************************************************)
(* Claims about every operation of the cache, checked under SpecOps.       *)
(***************************************************************************)
\* a step in which the storage answers the operation at the head of the queue
Answered == queue # <<>> /\ queue' # queue /\ Len(queue') <= Len(queue)

\* the statistics getStats holds after a step of its loop: what it returned
\* if the step was its last, what it goes on with otherwise
StatsAfter ==
    IF queue' = Tail(queue) THEN The(last'.res)
    ELSE queue'[Len(queue')].value

\* the store whose getAll a getStats in flight is waiting for
StatsStore == STORES[StoreEntries[Len(Head(queue).value) + 1]]

\* no operation leaves its caller with a rejected promise, and an operation
\* that failed gave its sentinel
Sentinels ==
    /\ last.promise # "rejected"
    /\ last.failed =>
          /\ last.promise = "fulfilled"
          /\ last.op = "get" => last.res = Null
          /\ last.op = "set" => ~last.ok
          /\ last.op = "getStats" => last.res = Some(<<>>)

\* C15 as stated: every operation fails soft.  No promise is rejected; a get
\* that failed resolved null, a set that failed resolved false, a getStats
\* that failed returned the empty object; and getStats knows no other
\* failure: a step of its loop either ends the call with the empty object or
\* adds the number of records the store holds.
C15_FailSoft ==
    /\ []Sentinels
    /\ [][(Answered /\ Head(queue).op = "getStats") =>
             \/ StatsAfter = <<>>
             \/ StatsAfter = Append(Head(queue).value, Items(StatsStore))]_vars

\* C15 amended: as C15, but a getAll request that fails does not end getStats
\* with the empty object: the store of that request is reported with zero
\* items and the loop goes on with the next store.
C15_FailSoftOrZeroItems ==
    /\ []Sentinels
    /\ [][(Answered /\ Head(queue).op = "getStats") =>
             \/ (StatsAfter = <<>> /\ last'.failed)
             \/ StatsAfter = Append(Head(queue).value, Items(StatsStore))
             \/ StatsAfter = Append(Head(queue).value, 0)]_vars

\* C15 witness: getStats was called on a cache that holds a record, failed to
\* open the storage or its transaction and returned the empty object.
C15_Witness ==
    /\ last.op = "getStats"
    /\ last.failed
    /\ last.promise = "fulfilled"
    /\ last.res = Some(<<>>)
    /\ store[STORES.TRAINING]["classes"] # Null

\* C16: no get or set blocks its caller for ever (checked under SpecOpsFair,
\* where the event loop delivers the event of every request made).  The
\* storage answers the operations in flight, and the answer to a get or a
\* set settles the promise its caller holds: a get with the stored value or
\* null, a set with true or false.
C16_EveryCallResolves ==
    /\ (Len(queue) = MaxQueue) ~> (Len(queue) < MaxQueue)
    /\ [][(Answered /\ Head(queue).op \in {"get", "set"}) =>
             /\ last'.op = Head(queue).op
             /\ last'.promise = "fulfilled"
             /\ last'.failed => (last'.res = Null /\ ~last'.ok)]_vars

\* the namespace a name stands for: the training dashboard's in either
\* case, the shared one for the names no dashboard has
NamespaceOf(d) ==
    IF d \in {"TRAINING", "training"} THEN "training_data" ELSE "shared_data"

\* C17: namespace names are resolved without regard to case, and a name of
\* no known dashboard stands for the shared namespace without an error.  A
\* set, get, delete or clearDashboard that runs under a name acts on the
\* store of the namespace the name stands for and on no other store, so what
\* a set wrote under one name of a namespace the next get of that key reads
\* back under every other name of it.
C17_NamespaceResolution ==
    [][(Answered /\ last'.op = Head(queue).op /\ last'.ok
        /\ last'.op \in {"get", "set", "delete", "clearDashboard"}) =>
          LET o == Head(queue)
              n == NamespaceOf(o.dashboard)
          IN /\ ~last'.failed
             /\ last'.store = n
             /\ \A s \in StoreNames \ {n} : store'[s] = store[s]
             /\ o.op = "set" =>
                   (store'[n][o.key] # Null
                    /\ The(store'[n][o.key]).value = o.value)
             /\ o.op = "delete" => store'[n][o.key] = Null
             /\ o.op = "clearDashboard" =>
                   \A k \in Keys : store'[n][k] = Null
             /\ o.op = "get" =>
                   /\ last'.res = {r.value : r \in store[n][o.key]}
                   /\ (last.op = "set" /\ last.ok /\ last.key = o.key
                       /\ NamespaceOf(last.dashboard) = n) =>
                         last'.res = Some(last.arg)]_vars

\* C17 witness: a get under the unknown name 'archive' has read back what a
\* set wrote under the unknown name 'legacy'.
C17_Witness ==
    /\ last.op = "get" /\ last.ok /\ last.afterSet
    /\ last.dashboard = "archive"
    /\ last.store = STORES.SHARED
    /\ last.res = Some(<<2>>)
    /\ The(LastEntry).dashboard = "legacy"

PayloadConsulted ==
    /\ HasServerData(mgr.serverData)
    /\ \/ mgr.loader = "initializeSystem"
       \/ \E k \in Keys : mgr.hit[k] = Null

C4_ReadyIffAllLoaded ==
    isReady(mgr) <=> (\A k \in Keys : mgr.cache[k] \notin {Null, Some(<<>>)})

\* C4 witness: a load has returned and left a partial snapshot, which is not
\* ready.
C4_Witness ==
    /\ ret # Null
    /\ \E k \in Keys : mgr.cache[k] # Null
    /\ \E k \in Keys : mgr.cache[k] = Null
    /\ ~isReady(mgr)

\* C5: when a system initialization returns ready = true, the manager it
\* produced is ready: every required key is present and non-empty.
C5_ReadyMeansReady ==
    (ret # Null /\ The(ret).ready) => isReady(mgr)

(***************************************************************************)
(* Claims about the derivations, checked under SpecFilter.  Call is the    *)
(* call that was made and what it returned; a selection is read here by    *)
(* the rule of the specification: it is active if it is an array, is not   *)
(* empty and does not hold "All".                                          *)
(***************************************************************************)
Call == The(ret)

IsActive(selection) ==
    selection.isArray /\ selection.items # <<>> /\ All \notin Set(selection.items)

OfficeOf(row) == Or(Field(row, "MemberOffice"), Field(row, "OfficeCode"))

\* the row passes the AOR and the Office selection of the call
PassesAorAndOffice(row) ==
    /\ IsActive(Call.selectedAors) =>
          Field(row, "AorShortName") \in Set(Call.selectedAors.items)
    /\ IsActive(Call.selectedOffices) =>
          OfficeOf(row) \in Set(Call.selectedOffices.items)

\* the keys that rows reference in field: a row without the field references
\* nothing
Referenced(rows, field) == {Field(r, field) : r \in rows} \ {undefined}

\* C6: on a manager that is not ready (or without a manager) every
\* derivation, option-list handler or getFiltered* method, returns the empty
\* collection (for the class derivation: no classes).
C6_NotReadyReturnsEmpty ==
    (ret # Null /\ (~Call.dataManager \/ ~isReady(mgr))) =>
        IF Call.op = "getFilteredClasses"
        THEN Call.value.classes = <<>>
        ELSE Call.value = <<>>

\* C7: the class rows the call's selections admit
C7_Admits(c) ==
    /\ IsActive(Call.selectedAors) =>
          Field(c, "AorShortName") \in Set(Call.selectedAors.items)
    /\ IsActive(Call.selectedInstructors) =>
          String(Field(c, "InstructorId")) \in Set(Call.selectedInstructors.items)
    /\ IsActive(Call.selectedLocations) =>
          String(Field(c, "LocationId")) \in Set(Call.selectedLocations.items)
    /\ IsActive(Call.selectedTopics) =>
          String(Field(c, "TopicId")) \in Set(Call.selectedTopics.items)
    /\ IsActive(Call.selectedOffices) =>
          Field(c, "ClassId") \in
              Referenced({s \in Set(getData(mgr, "attendance_stats")) :
                             OfficeOf(s) \in Set(Call.selectedOffices.items)},
                         "TrainingClassId")

\* C7: the class derivation returns exactly the classes, in table order,
\* that satisfy every active AOR, Instructor, Location and Topic predicate
\* and, when an Office selection is active, whose class id is referenced by
\* an attendance row of a selected office; an inactive Office selection
\* restricts nothing.  The earlier variant of the derivation returns the same.
C7_ClassesExactConjunction ==
    (ret # Null /\ Call.op = "getFilteredClasses") =>
        /\ Call.value.classes = SelectSeq(getData(mgr, "classes"), C7_Admits)
        /\ Call.value =
              getFilteredClassesEarlier(mgr, Call.selectedAors, Call.selectedOffices,
                                        Call.selectedInstructors,
                                        Call.selectedLocations, Call.selectedTopics)

\* C7 witness: all five selections are active and admit some of the classes
\* but not all of them.
C7_Witness ==
    /\ ret # Null
    /\ Call.op = "getFilteredClasses"
    /\ IsActive(Call.selectedAors) /\ IsActive(Call.selectedOffices)
    /\ IsActive(Call.selectedInstructors) /\ IsActive(Call.selectedLocations)
    /\ IsActive(Call.selectedTopics)
    /\ Len(Call.value.classes) > 0
    /\ Len(Call.value.classes) < Len(getData(mgr, "classes"))

\* the office codes of an option list without its leading "All" option
OfficesOffered(options) ==
    IF Len(options) = 0 THEN <<>>
    ELSE [i \in 1..(Len(options) - 1) |-> options[i + 1].value]

\* C8: on a ready manager the office derivation (either getOfficeOptions)
\* offers, in table order, exactly the offices whose AOR short name is in an
\* active selection, and all offices for an inactive selection.
C8_OfficesOfSelectedAors ==
    (ret # Null /\ Call.op \in {"getOfficeOptions", "FilterUtils.getOfficeOptions"}
        /\ Call.dataManager /\ isReady(mgr)) =>
        LET offices == getData(mgr, "offices")
            expected ==
                IF IsActive(Call.selectedAors)
                THEN SelectSeq(offices, LAMBDA o :
                        Field(o, "AorShortName") \in Set(Call.selectedAors.items))
                ELSE offices
        IN OfficesOffered(Call.value) =
              [i \in DOMAIN expected |-> String(Field(expected[i], "OfficeCode"))]

\* C8 witness: offices E1/EAST and W1/WEST, selection [EAST], office E1
\* offered and nothing else.
C8_Witness ==
    /\ ret # Null
    /\ Call.op = "getOfficeOptions"
    /\ Call.selectedAors = Array(<<JsString("EAST")>>)
    /\ OfficesOffered(Call.value) = <<JsString("E1")>>

\* the topic derivation with the Office filter applied before the AOR filter
TopicsOfficeFilterFirst ==
    LET requests == filterByAors(filterByOffices(getData(mgr, "request_stats"),
                                                 Call.selectedOffices),
                                 Call.selectedAors)
        attendance == filterByAors(filterByOffices(getData(mgr, "attendance_stats"),
                                                   Call.selectedOffices),
                                   Call.selectedAors)
        topicIds == Set(getUniqueIds(requests, "TrainingTopicId")
                        \o getUniqueIds(attendance, "TrainingTopicId"))
    IN SelectSeq(getData(mgr, "topics"), LAMBDA topic :
            Field(topic, "TopicId") \in topicIds)

\* the topic keys referenced by the request rows and by the attendance rows
\* that pass the AOR and the Office selection
ReachableTopics ==
    Referenced({r \in Set(getData(mgr, "request_stats")) : PassesAorAndOffice(r)},
               "TrainingTopicId")
    \cup Referenced({r \in Set(getData(mgr, "attendance_stats")) :
                        PassesAorAndOffice(r)},
                    "TrainingTopicId")

\* C9: the topic derivation returns exactly the topic rows whose key is in
\* the union of the topic keys referenced by the request rows and by the
\* attendance rows that pass the AOR and the Office filter, and applying the
\* Office filter before the AOR filter gives the same rows.
C9_TopicsReachable ==
    (ret # Null /\ Call.op = "getFilteredTopics") =>
        /\ Call.value = SelectSeq(getData(mgr, "topics"), LAMBDA topic :
                            Field(topic, "TopicId") \in ReachableTopics)
        /\ Call.value = TopicsOfficeFilterFirst

\* C9 witness: with both selections active a topic is derived that only a
\* request row references, and another topic is not derived.
C9_Witness ==
    /\ ret # Null
    /\ Call.op = "getFilteredTopics"
    /\ IsActive(Call.selectedAors) /\ IsActive(Call.selectedOffices)
    /\ Len(Call.value) = 1
    /\ Call.value[1].TopicId \notin
          Referenced({r \in Set(getData(mgr, "attendance_stats")) :
                         PassesAorAndOffice(r)},
                     "TrainingTopicId")

\* the attendance rows that pass the selections of an instructor or a
\* location derivation
SurvivingAttendance ==
    {r \in Set(getData(mgr, "attendance_stats")) :
        /\ PassesAorAndOffice(r)
        /\ Call.op = "getFilteredLocations" =>
              /\ IsActive(Call.selectedTopics) =>
                    String(Field(r, "TrainingTopicId")) \in Set(Call.selectedTopics.items)
              /\ IsActive(Call.selectedInstructors) =>
                    String(Field(r, "InstructorId"))
                        \in Set(Call.selectedInstructors.items)}

\* the instructor or location keys the surviving attendance rows reference
ReachableKeys ==
    IF Call.op = "getFilteredLocations"
    THEN Referenced(SurvivingAttendance, "LocationId")
    ELSE Referenced(SurvivingAttendance, "InstructorId")

DimensionRows ==
    IF Call.op = "getFilteredLocations"
    THEN getData(mgr, "locations") ELSE getData(mgr, "instructors")

KeyOf(row) ==
    IF Call.op = "getFilteredLocations"
    THEN Field(row, "LocationID") ELSE Field(row, "InstructorID")

\* C10 as stated: the instructor and the location derivation return only
\* rows whose key is in the reachable set, so nothing when that set is empty.
C10_OnlyReachableRows ==
    (ret # Null /\ Call.op \in {"getFilteredInstructors", "getFilteredLocations"}) =>
        \A i \in DOMAIN Call.value : KeyOf(Call.value[i]) \in ReachableKeys

\* C10 amended: the instructor and the location derivation return exactly
\* the dimension rows whose key is in the reachable set when that set is not
\* empty, and all dimension rows when it is empty.
C10_ReachableOrAllRows ==
    (ret # Null /\ Call.op \in {"getFilteredInstructors", "getFilteredLocations"}) =>
        Call.value =
            IF ReachableKeys = {} THEN DimensionRows
            ELSE SelectSeq(DimensionRows, LAMBDA row : KeyOf(row) \in ReachableKeys)

\* C10 witness: no attendance row passes the selections of an instructor
\* derivation on a snapshot that has attendance rows, and every instructor
\* is returned.
C10_Witness ==
    /\ ret # Null
    /\ Call.op = "getFilteredInstructors"
    /\ getData(mgr, "attendance_stats") # <<>>
    /\ SurvivingAttendance = {}
    /\ Call.value = Instructors

\* the attendance rows that pass the AOR, Office, Topic and Instructor
\* selection of the call together
PassesAllFour(row) ==
    /\ PassesAorAndOffice(row)
    /\ IsActive(Call.selectedTopics) =>
          String(Field(row, "TrainingTopicId")) \in Set(Call.selectedTopics.items)
    /\ IsActive(Call.selectedInstructors) =>
          String(Field(row, "InstructorId")) \in Set(Call.selectedInstructors.items)

\* the location is referenced by an attendance row that passes all four
LocationReached(location) ==
    \E i \in DOMAIN getData(mgr, "attendance_stats") :
        LET row == getData(mgr, "attendance_stats")[i]
        IN /\ PassesAllFour(row)
           /\ Boolean(Field(row, "LocationId"))
           /\ Field(row, "LocationId") = Field(location, "LocationID")

\* C11 as stated: every location the location derivation returns is
\* referenced by an attendance row that passes the AOR, Office, Topic and
\* Instructor filters together, so a location referenced only by rows of an
\* unselected topic or instructor is not returned.
C11_LocationsPassAllFour ==
    (ret # Null /\ Call.op = "getFilteredLocations") =>
        \A i \in DOMAIN Call.value : LocationReached(Call.value[i])

\* C11 amended: when some location is referenced by an attendance row that
\* passes the AOR, Office, Topic and Instructor filters together, the
\* location derivation returns exactly the locations so referenced; when no
\* location is, it returns every location, those referenced only by rows of
\* an unselected topic or instructor included.
C11_LocationsPassAllFourOrAll ==
    (ret # Null /\ Call.op = "getFilteredLocations") =>
        LET locations == getData(mgr, "locations")
        IN IF \E j \in DOMAIN locations : LocationReached(locations[j])
           THEN Call.value = SelectSeq(locations, LocationReached)
           ELSE Call.value = locations

\* C11 witness: with a Topic or Instructor selection active, a location that
\* attendance rows passing the AOR and Office selection reference is left out
\* because those rows are of an unselected topic or instructor.
C11_Witness ==
    /\ ret # Null
    /\ Call.op = "getFilteredLocations"
    /\ IsActive(Call.selectedTopics) \/ IsActive(Call.selectedInstructors)
    /\ Len(Call.value) = 1
    /\ \E j \in DOMAIN Locations :
          /\ \A i \in DOMAIN Call.value : Call.value[i] # Locations[j]
          /\ \E i \in DOMAIN getData(mgr, "attendance_stats") :
                LET row == getData(mgr, "attendance_stats")[i]
                IN /\ PassesAorAndOffice(row)
                   /\ Field(row, "LocationId") = Locations[j].LocationID

\* an empty selection read as ["All"]
AllForEmpty(selection) ==
    IF selection.isArray /\ selection.items = <<>> THEN Array(<<All>>) ELSE selection

\* what the operation of the call returns for the selections given
Recomputed(aors, offices, topics, instructors, locations) ==
    LET dm == IF Call.dataManager THEN Some(mgr) ELSE Null
    IN CASE Call.op = "getFilteredTopics" -> getFilteredTopics(mgr, aors, offices)
         [] Call.op = "getFilteredInstructors" ->
                getFilteredInstructors(mgr, aors, offices)
         [] Call.op = "getFilteredLocations" ->
                getFilteredLocations(mgr, aors, offices, topics, instructors)
         [] Call.op = "getFilteredClasses" ->
                getFilteredClasses(mgr, aors, offices, instructors, locations, topics)
         [] Call.op = "getAorOptions" -> getAorOptions(dm)
         [] Call.op = "getOfficeOptions" ->
                (IF Len(Call.value) = 0 THEN <<>>
                 ELSE Tail(getOfficeOptions(aors, dm)))
         [] Call.op = "FilterUtils.getOfficeOptions" ->
                (IF Len(Call.value) = 0 THEN <<>>
                 ELSE Tail(FilterUtilsGetOfficeOptions(aors, dm, JsString("All Offices"))))
         [] Call.op = "getTopicOptions" -> getTopicOptions(aors, offices, dm)
         [] Call.op = "getInstructorOptions" -> getInstructorOptions(aors, offices, dm)
         [] Call.op = "getLocationOptions" ->
                getLocationOptions(aors, offices, topics, instructors, dm)
         [] Call.op = "getClassOptions" ->
                getClassOptions(aors, offices, instructors, locations, topics, dm)
         [] Call.op = "validateTrainingFilters" ->
                validateTrainingFilters(
                    Filters(aors, offices, topics, instructors, locations), dm)

\* the result of the call without the label of an office option list's "All"
\* entry, which spells out the selection
Result ==
    IF Call.op \in {"getOfficeOptions", "FilterUtils.getOfficeOptions"}
          /\ Len(Call.value) > 0
    THEN Tail(Call.value) ELSE Call.value

\* C12: an inactive selection (not an array, empty, or holding "All") makes
\* each filter return its input, and every operation (derivation, option
\* list, validation) returns for an empty selection what it returns for
\* ["All"].
C12_InactiveSelectionsAlike ==
    ret # Null =>
        /\ \A k \in DOMAIN mgr.cache :
              LET data == getData(mgr, k)
              IN /\ ~IsActive(Call.selectedAors) =>
                        filterByAors(data, Call.selectedAors) = data
                 /\ ~IsActive(Call.selectedOffices) =>
                        filterByOffices(data, Call.selectedOffices) = data
                 /\ ~IsActive(Call.selectedTopics) =>
                        /\ filterByTopics(data, Call.selectedTopics) = data
                        /\ filterByClasses(data, Call.selectedTopics) = data
                 /\ ~IsActive(Call.selectedInstructors) =>
                        filterByInstructors(data, Call.selectedInstructors) = data
                 /\ ~IsActive(Call.selectedLocations) =>
                        filterByLocations(data, Call.selectedLocations) = data
        /\ Result = Recomputed(AllForEmpty(Call.selectedAors),
                               AllForEmpty(Call.selectedOffices),
                               AllForEmpty(Call.selectedTopics),
                               AllForEmpty(Call.selectedInstructors),
                               AllForEmpty(Call.selectedLocations))

\* C13: identifiers are compared by their string representation: a row with
\* a numeric key matches the selection holding that key as a string, and the
\* topic derivation returns the topic rows whose key has the string
\* representation of a key referenced by a passing fact row, whether the
\* fact row holds it as a number or as a string.
C13_TypeStableIdentifiers ==
    ret # Null =>
        /\ IsActive(Call.selectedTopics) =>
              filterByTopics(getData(mgr, "classes"), Call.selectedTopics) =
                  SelectSeq(getData(mgr, "classes"), LAMBDA c :
                      String(Field(c, "TopicId")) \in Set(Call.selectedTopics.items))
        /\ Call.op = "getFilteredTopics" =>
              Call.value = SelectSeq(getData(mgr, "topics"), LAMBDA topic :
                              String(Field(topic, "TopicId")) \in
                                  {String(k) : k \in ReachableTopics})

(***************************************************************************)
(* Claims about the namespaces and the write-through of the loads, checked *)
(* under SpecLoad.                                                         *)
(***************************************************************************)
\* the operations a step has put in flight
Issued == {queue'[i] : i \in (Len(queue) + 1)..Len(queue')}

\* the dashboard lookup of a shared key has come back with null
SharedKeyMissed ==
    /\ mgr.pc = "get" /\ mgr.resolved /\ mgr.cached = Null
    /\ dataKeys[mgr.idx] \in mgr.shared

\* C18: the namespaces of a load.  Every lookup a load makes is under the
\* dashboard's own name, except the one that follows a dashboard lookup of a
\* shared key that came back with null, which is under 'SHARED' for the same
\* key, and that one is always made; every write a load makes is under
\* 'SHARED' for a shared key and under the dashboard's own name for any
\* other key.  So a key that is not shared is neither read from nor written
\* to the shared namespace.
C18_NamespaceRouting ==
    [][/\ \A o \in Issued :
             /\ o.op = "get" =>
                   \/ o.dashboard = "TRAINING"
                   \/ /\ o.dashboard = "SHARED"
                      /\ SharedKeyMissed
                      /\ o.key = dataKeys[mgr.idx]
             /\ o.op = "set" =>
                   o.dashboard = IF o.key \in mgr'.shared THEN "SHARED"
                                 ELSE "TRAINING"
       /\ (SharedKeyMissed /\ mgr' # mgr) =>
             Issued = {Op("get", dataKeys[mgr.idx], "SHARED", <<>>, "mgr")}]_vars

\* C18 witness: a load whose manager shares 'aors' has found the key in
\* neither namespace, adopted the payload's value and written it to the
\* shared store; its key 'classes', which is not shared, was written to the
\* dashboard's own store.
C18_Witness ==
    /\ ret # Null
    /\ mgr.shared = {"aors"}
    /\ mgr.hit["aors"] = Null
    /\ store[STORES.TRAINING]["aors"] = Null
    /\ store[STORES.SHARED]["aors"] # Null
    /\ Some(The(store[STORES.SHARED]["aors"]).value) = mgr.cache["aors"]
    /\ store[STORES.SHARED]["classes"] = Null
    /\ store[STORES.TRAINING]["classes"] # Null
    /\ Some(The(store[STORES.TRAINING]["classes"]).value) = mgr.cache["classes"]
    /\ Supplies(mgr.serverData, "aors") /\ Supplies(mgr.serverData, "classes")
    /\ queue = <<>>

\* the keys for which a step has put a write of the payload's value in flight
Written ==
    {o.key : o \in {w \in Issued : /\ w.op = "set"
                                    /\ Supplies(mgr'.serverData, w.key)
                                    /\ Some(w.value) = The(mgr'.serverData)[w.key]}}

\* a load returns
LoadReturns == ret = Null /\ ret' # Null

\* initializeTrainingSystem has finished its lookups, or the write it was
\* waiting for, and goes on
TrainingGoesOn ==
    /\ mgr.loader = "initializeTrainingSystem"
    /\ mgr.resolved
    /\ mgr' # mgr
    /\ mgr.pc = "tset" \/ (mgr.pc = "tget" /\ mgr.idx = Len(dataKeys))

\* the positions of the keys the payload supplies that
\* initializeTrainingSystem has not written yet
Unwritten ==
    {j \in DOMAIN dataKeys :
        /\ j > (IF mgr.pc = "tset" THEN mgr.idx ELSE 0)
        /\ Supplies(mgr.serverData, dataKeys[j])}

\* a set that resolves true puts the record of its value, stamped with the
\* time of the write, in place of whatever entry there was
WriteReplaces ==
    (Answered /\ Head(queue).op = "set" /\ last'.op = "set" /\ last'.ok) =>
        LET o == Head(queue)
        IN /\ store'[last'.store][o.key] # Null
           /\ The(store'[last'.store][o.key]).value = o.value
           /\ The(store'[last'.store][o.key]).timestamp = now

FailedWrite ==
    Answered /\ Head(queue).op = "set" /\ last'.op = "set" /\ last'.failed

\* what a failed write leaves of the session: the snapshot, getData and
\* isReady() are as before and hold the payload's value for the key, the
\* store is as before, a load that awaited the write goes on, and neither
\* that step nor the load's next one writes the key again
KeepsSession ==
    /\ FailedWrite =>
          LET o == Head(queue)
          IN /\ mgr'.cache = mgr.cache
             /\ isReady(mgr') = isReady(mgr)
             /\ (o.caller = "mgr" \/ mgr.pc = "idle") =>
                   (mgr'.cache[o.key] = Some(o.value)
                    /\ getData(mgr', o.key) = o.value)
             /\ o.caller = "mgr" => mgr'.resolved
             /\ store' = store
             /\ Issued = {}
    /\ (mgr.pc = "tset" /\ mgr.resolved /\ mgr' # mgr) =>
          \A w \in Issued : w.key # dataKeys[mgr.idx]

\* C20 as stated: a failed cache write leaves the in-memory state alone and
\* is not retried, and afterwards the key is not cached: a get for it is a
\* miss.
C20_FailedWriteIsMiss ==
    [][/\ KeepsSession
       /\ FailedWrite =>
             GetResult(store'[last'.store][Head(queue).key]) = Null]_vars

\* C20 amended: a failed cache write leaves the in-memory state alone and is
\* not retried, and it leaves the cache as it was: a get for the key gives
\* what it would have given before the write, a miss only if the key had no
\* entry or an expired one.
C20_FailedWriteKeepsEntry ==
    [][/\ KeepsSession
       /\ FailedWrite =>
             GetResult(store'[last'.store][Head(queue).key]) =
                 GetResult(store[last'.store][Head(queue).key])]_vars

\* C20 witness: the write of an adopted value has failed, the load has
\* returned with the manager ready and the payload's value in its snapshot,
\* and the cache still holds the older entry, not expired, with another
\* value.
C20_Witness ==
    /\ last.op = "set" /\ last.failed
    /\ ret # Null
    /\ isReady(mgr)
    /\ mgr.cache[last.key] = Some(last.arg)
    /\ LastEntry # Null
    /\ ~Expired(The(LastEntry))
    /\ The(LastEntry).value # last.arg

(***************************************************************************)
(* Claims about TrainingSummaryUtils, checked under SpecSummary.           *)
(***************************************************************************)
Metrics == {r \in ret : r.op = "calculateMetrics"}

\* the rows of a table, none when the table is not an array
RowsOf(table) == IF table.isArray THEN table.items ELSE <<>>

\* the sum of the counter over the rows, the number of rows when no row has
\* the counter
SumOrCount(rows, counter) ==
    LET value(row) == IF Field(row, counter) = JsNumber("3") THEN 3
                      ELSE IF Field(row, counter) = JsString("4") THEN 4 ELSE 0
        sum[i \in 0..Len(rows)] == IF i = 0 THEN 0 ELSE sum[i - 1] + value(rows[i])
    IN IF \A i \in DOMAIN rows : counter \notin DOMAIN rows[i] THEN Len(rows)
       ELSE sum[Len(rows)]

\* C21: a call of calculateMetrics that meets no error returns the number of
\* class rows, the sum of the attendance counter over the attendance rows (the
\* number of rows when the counter column is absent), the same for requests,
\* and the number of distinct member identifiers among the member rows.
C21_Metrics ==
    \A r \in Metrics :
        ~r.value.error =>
            /\ r.value.totalClasses = Len(RowsOf(r.classes))
            /\ r.value.totalAttendances = SumOrCount(RowsOf(r.attendance), "TotalAttendances")
            /\ r.value.totalRequests = SumOrCount(RowsOf(r.requests), "TotalRequests")
            /\ r.value.activeMembers =
                   Cardinality({row.MemberID : row \in Set(RowsOf(r.activeMembers))})

\* C21 happens: classes, a summed attendance counter, requests without the
\* counter column and member rows that repeat an identifier
C21_Witness ==
    \E r \in Metrics :
        /\ ~r.value.error
        /\ r.value.totalClasses = 3
        /\ r.value.totalAttendances = 7
        /\ Len(RowsOf(r.requests)) = 2 /\ r.value.totalRequests = 2
        /\ "TotalRequests" \notin DOMAIN r.requests.items[1]
        /\ Len(RowsOf(r.activeMembers)) = 3 /\ r.value.activeMembers = 2

\* C22: calculateMetrics never throws, and a call that met an error while it
\* computed a metric returns the all-zero tuple.
C22_ErrorGivesZeros ==
    \A r \in Metrics :
        r.value.error =>
            /\ r.value.totalClasses = 0
            /\ r.value.totalAttendances = 0
            /\ r.value.totalRequests = 0
            /\ r.value.activeMembers = 0

FilterCalls == {r \in ret : r.op = "filterClasses" /\ r.classes.isArray /\ r.selections # Null}

\* the items chosen in a selection of the page, none when none was made
Chosen(r, key) ==
    LET filterStr == The(r.selections)[key]
    IN IF filterStr = JsString("'EAST'") THEN {"EAST"}
       ELSE IF filterStr = JsString("'EAST', 'WEST'") THEN {"EAST", "WEST"}
       ELSE IF filterStr = JsString("'1'") THEN {"1"}
       ELSE IF filterStr = JsString("'2'") THEN {"2"}
       ELSE IF filterStr = JsString("'1', '2'") THEN {"1", "2"}
       ELSE IF filterStr = JsString("'NORTH'") THEN {"NORTH"}
       ELSE IF filterStr = JsString("'E1'") THEN {"E1"}
       ELSE IF filterStr = JsString("'E1', 'W1'") THEN {"E1", "W1"}
       ELSE {}

\* both bounds of the date range are supplied
Bounded(r) ==
    /\ The(r.selections).Day_From \notin {undefined, JsString("")}
    /\ The(r.selections).Day_To \notin {undefined, JsString("")}

\* the rows of the call carry the field
Carry(r, field) == \A i \in DOMAIN r.classes.items : field \in DOMAIN r.classes.items[i]

\* the instant of the start of a class, if its timestamp gives one
StartOf(r, cls) ==
    LET parsed == parseCustomDateTime(cls.StartTime, r.timezoneOffset)
    IN IF parsed # Null /\ The(parsed).valid THEN {The(parsed).time} ELSE {}

\* the instant a bound of the date range stands for
Bound(r, key) == NewDate(The(r.selections)[key].text, r.timezoneOffset).time

\* the start of the class parses and lies in the range, its ends included
Within(r, cls) ==
    \E t \in StartOf(r, cls) : Bound(r, "Day_From") <= t /\ t <= Bound(r, "Day_To")

\* the class satisfies every predicate of filterClasses that applies
Satisfies(r, cls) ==
    /\ Chosen(r, "AORs") # {} /\ Carry(r, "AorShortName")
           => cls.AorShortName.text \in Chosen(r, "AORs")
    /\ Bounded(r) /\ Carry(r, "StartTime") => Within(r, cls)
    /\ Chosen(r, "Topics") # {} /\ Carry(r, "TopicId")
           => cls.TopicId.text \in Chosen(r, "Topics")
    /\ Chosen(r, "Instructors") # {} /\ Carry(r, "InstructorId")
           => cls.InstructorId.text \in Chosen(r, "Instructors")
    /\ Chosen(r, "Locations") # {} /\ Carry(r, "LocationId")
           => cls.LocationId.text \in Chosen(r, "Locations")

DateOnly(r) ==
    \A key \in {"AORs", "Topics", "Instructors", "Locations"} : Chosen(r, key) = {}

MemberCalls ==
    {r \in ret : r.op = "filterActiveMembers" /\ r.activeMembers.isArray /\ r.selections # Null}

\* the members of the call whose office code is one of the codes
MembersOf(r, codes) ==
    SelectSeq(r.activeMembers.items, LAMBDA member : member.OfficeCode.text \in codes)

\* the codes of the offices of the call that belong to a selected AOR
OfficesOfChosenAors(r) ==
    {o.OfficeCode.text : o \in {x \in Set(r.offices.items) :
                                   x.AorShortName.text \in Chosen(r, "AORs")}}

\* C25: with offices selected filterActiveMembers returns exactly the members
\* whose office code is selected; otherwise, with AORs selected, exactly the
\* members whose office code belongs to an office of a selected AOR (none
\* when the selected AORs have no offices); otherwise all members.
C25_ActiveMembers ==
    \A r \in MemberCalls :
        r.value = IF Chosen(r, "Offices") # {} THEN MembersOf(r, Chosen(r, "Offices"))
                  ELSE IF Chosen(r, "AORs") # {} THEN MembersOf(r, OfficesOfChosenAors(r))
                  ELSE r.activeMembers.items

(***************************************************************************)
(* The claim about validateData, checked under SpecValidate.               *)
(***************************************************************************)
Validated == {r \in ret : r.op = "validateData"}

\* the class rows of the manager whose key names no row of the dimension
Dangling(m, key, dimension, id) ==
    {c \in Set(getData(m, "classes")) :
        \A d \in Set(getData(m, dimension)) : d[id] # c[key]}

\* C26: validateData reports one issue for every required key that is
\* missing or empty and every topic, instructor and location reference of a
\* class row that does not resolve to a loaded row; the data is valid iff
\* there is no issue; the snapshot is left as it was.
C26_ValidateData ==
    \A r \in Validated :
        LET m == r.dataManager
            issues == Set(r.value.issues)
            unresolved == Dangling(m, "TopicId", "topics", "TopicId")
                          \cup Dangling(m, "InstructorId", "instructors", "InstructorID")
                          \cup Dangling(m, "LocationId", "locations", "LocationID")
        IN /\ \A i \in DOMAIN m.dataKeys :
                  Len(getData(m, m.dataKeys[i])) = 0
                      <=> \E x \in issues : x.key = m.dataKeys[i] /\ x.ids = <<>>
           /\ unresolved # {} => \E x \in issues : x.ids # <<>>
           /\ r.value.valid <=> (unresolved = {} /\ isReady(m))
           /\ r.value.valid <=> issues = {}
           /\ mgr = m

(***************************************************************************)
(* The claim about the purge of an expired record, checked under Spec.     *)
(***************************************************************************)
\* the delete that a get started for an expired record runs and removes the
\* record e
Purges(e) ==
    /\ queue # <<>>
    /\ Head(queue).op = "delete"
    /\ Head(queue).caller = "none"
    /\ e = store[StoreName(Head(queue).dashboard)][Head(queue).key]
    /\ store' # store

\* C27: the delete started by a get that found an expired record removes no
\* newer record: whatever set resolved true after that get returned null,
\* and however the delete and the set are interleaved, the record the delete
\* removes is an expired one, so that a following get within the TTL of the
\* set returns the value set.
C27_PurgeSparesNewer ==
    [][\A e \in {store[s][k] : s \in StoreNames, k \in Keys} :
           Purges(e) => Expired(The(e))]_vars

(***************************************************************************)
(* Claims about the cache after a load, checked under SpecLoad.            *)
(***************************************************************************)
\* the entry a get called now will find under the key of the store, if the
\* storage runs the operations in flight without an error: what the last
\* write or delete in flight leaves, or the entry of the store
AwaitingGet(q, st, s, k) ==
    LET writes == {i \in DOMAIN q : /\ q[i].op \in {"set", "delete"}
                                     /\ q[i].key = k
                                     /\ StoreName(q[i].dashboard) = s}
        o == q[CHOOSE i \in writes : \A j \in writes : j <= i]
    IN IF writes = {} THEN st[s][k]
       ELSE IF o.op = "set" THEN Some(Data(k, o.value, o.dashboard))
       ELSE Null

\* the store a load writes the key to
TargetStore(m, k) == IF k \in m.shared THEN STORES.SHARED ELSE STORES.TRAINING

\* C28: write-through is complete when a load returns.  When loadAllData
\* (initializeSystem) returns with a payload, a get called at once for a key
\* the load adopted from the payload, in the namespace the key is written
\* to, resolves with the adopted value if no storage operation fails.
C28_WriteThroughComplete ==
    [][(LoadReturns /\ mgr'.loader = "initializeSystem") =>
          \A k \in Keys :
              Supplies(mgr'.serverData, k) =>
                  /\ mgr'.cache[k] = The(mgr'.serverData)[k]
                  /\ GetResult(AwaitingGet(queue', store', TargetStore(mgr', k), k))
                         = mgr'.cache[k]]_vars

\* C28 happens: a load has returned with the payload's value for 'classes'
\* adopted while the store still holds the expired entry with another value;
\* the delete that the lookup started and the write of the load are in flight
C28_Witness ==
    /\ ret # Null
    /\ mgr.loader = "initializeSystem"
    /\ mgr.pc = "idle"
    /\ Supplies(mgr.serverData, "classes")
    /\ store[STORES.TRAINING]["classes"] # Null
    /\ Expired(The(store[STORES.TRAINING]["classes"]))
    /\ Some(The(store[STORES.TRAINING]["classes"]).value) # mgr.cache["classes"]
    /\ \E i, j \in DOMAIN queue :
           /\ i < j
           /\ queue[i].op = "delete" /\ queue[i].key = "classes"
           /\ queue[j].op = "set" /\ queue[j].key = "classes"
           /\ Some(queue[j].value) = mgr.cache["classes"]

(***************************************************************************)
(* The claim about checkTrainingDataCache, checked under SpecCheck.        *)
(***************************************************************************)
\* every required key has an entry in the TRAINING namespace that has rows
\* and is no older than the TTL
AllCached ==
    \A k \in Keys :
        \E e \in store[STORES.TRAINING][k] :
            Len(e.value) > 0 /\ now - e.timestamp <= CACHE_TTL

\* the rows of the entries of the TRAINING namespace
CachedRows == [k \in Keys |-> {e.value : e \in store[STORES.TRAINING][k]}]

\* the lookup the check has just been given the result of has failed
LookupFailed ==
    last.op = "get" /\ last.failed /\ last.key = dataKeys[mgr.idx]

\* C30 as stated: checkTrainingDataCache reports needsServerData = false,
\* with the cache data of every required key, if and only if every required
\* key has a non-expired, non-empty entry in the TRAINING namespace, and
\* needsServerData = true with no cache data otherwise.
C30_CacheCheck ==
    [][LoadReturns =>
          LET r == The(ret')
          IN /\ r.needsServerData <=> ~AllCached
             /\ r.cacheData = IF AllCached THEN Some(CachedRows) ELSE Null]_vars

\* C30 amended: checkTrainingDataCache reports needsServerData = false, with
\* the cache data of every required key, if and only if every required key has
\* a non-expired, non-empty entry in the TRAINING namespace and no lookup
\* failed; otherwise, also when the storage failed on a lookup, it reports
\* needsServerData = true with no cache data.
C30_CacheCheckOrFailure ==
    [][LoadReturns =>
          LET r == The(ret')
          IN /\ r.needsServerData <=> (~AllCached \/ LookupFailed)
             /\ r.cacheData = IF r.needsServerData THEN Null ELSE Some(CachedRows)]_vars

\* C30 happens: the check has found both keys cached, in entries as old as
\* the TTL, and returned their rows
C30_Witness ==
    /\ ret # Null
    /\ mgr.loader = "checkTrainingDataCache"
    /\ ~The(ret).needsServerData
    /\ now = CACHE_TTL
    /\ The(ret).cacheData = Some([k \in Keys |-> Some(<<2>>)])

(***************************************************************************)
(* The claim about the cascade as a whole, checked under SpecFilter.       *)
(***************************************************************************)
\* the selections that the selection is a narrowing of: an active selection
\* narrows every inactive one and itself with one more item
Wider(selection, items) ==
    IF IsActive(selection)
    THEN {selection, NotArray, Array(<<>>), Array(<<All>>)}
         \cup {Array(Append(selection.items, JsString(x))) :
                  x \in {y \in items : JsString(y) \notin Set(selection.items)}}
    ELSE {selection}

\* the rows the derivation of the call gives for the selections c
DerivedRows(c) ==
    CASE Call.op = "getFilteredTopics" ->
             Set(getFilteredTopics(mgr, c.selectedAors, c.selectedOffices))
      [] Call.op = "getFilteredInstructors" ->
             Set(getFilteredInstructors(mgr, c.selectedAors, c.selectedOffices))
      [] Call.op = "getFilteredLocations" ->
             Set(getFilteredLocations(mgr, c.selectedAors, c.selectedOffices,
                                      c.selectedTopics, c.selectedInstructors))
      [] OTHER ->
             Set(getFilteredClasses(mgr, c.selectedAors, c.selectedOffices,
                                    c.selectedInstructors, c.selectedLocations,
                                    c.selectedTopics).classes)

\* the selections of the call with one upstream selection made wider
Widenings ==
    {[Call EXCEPT !.selectedAors = w] : w \in Wider(Call.selectedAors, {"EAST", "WEST"})}
    \cup {[Call EXCEPT !.selectedOffices = w] : w \in Wider(Call.selectedOffices, {"E1", "W1"})}
    \cup {[Call EXCEPT !.selectedTopics = w] : w \in Wider(Call.selectedTopics, {"1", "2"})}
    \cup {[Call EXCEPT !.selectedInstructors = w] :
              w \in Wider(Call.selectedInstructors, {"1", "2"})}
    \cup {[Call EXCEPT !.selectedLocations = w] :
              w \in Wider(Call.selectedLocations, {"1", "2"})}

Derivations ==
    {"getFilteredTopics", "getFilteredInstructors", "getFilteredLocations",
     "getFilteredClasses"}

\* C29 as stated: the cascade is monotone.  On a fixed snapshot, a derivation
\* of topics, instructors, locations or classes called with a narrower
\* upstream selection (a subset of an active selection, or an active
\* selection in place of an inactive one) returns no row that it does not
\* return for the wider selection.
C29_Monotone ==
    (ret # Null /\ Call.op \in Derivations) =>
        \A c \in Widenings : DerivedRows(Call) \subseteq DerivedRows(c)

\* C29 amended: the derivations of topics and classes are monotone; those of
\* instructors and locations are monotone as long as the narrower selection
\* leaves a reachable key, and return every row when it leaves none.
C29_MonotoneWhileReachable ==
    (ret # Null /\ Call.op \in Derivations) =>
        IF Call.op \in {"getFilteredInstructors", "getFilteredLocations"}
              /\ ReachableKeys = {}
        THEN Call.value = DimensionRows
        ELSE \A c \in Widenings : DerivedRows(Call) \subseteq DerivedRows(c)

\* C29 happens: an AOR selection that is active leaves an instructor
\* derivation with fewer rows than the same call without it
C29_Witness ==
    /\ ret # Null
    /\ Call.op = "getFilteredInstructors"
    /\ IsActive(Call.selectedAors)
    /\ ReachableKeys # {}
    /\ Len(Call.value) < Len(getFilteredInstructors(mgr, NotArray, Call.selectedOffices))

====
